---- MODULE Spec2Model ----
(***************************************************************************)
(* PromptWeaver: the video generation pipeline and its footage cache.      *)
(*                                                                         *)
(* Eleven specifications share the module:                                *)
(*   SpecMerge    concurrent downloadVideo calls against the clip table    *)
(*   SpecSpeech   concurrent generateSpeech calls against the voice cache  *)
(*   SpecCascade  successive runs of searchAndDownloadVideos               *)
(*   SpecJob      concurrent generateVideo jobs and their workspaces       *)
(*   SpecFind     calls of findCachedClips on a clip table                 *)
(*   SpecPipe     one generateVideo job and the values its stages pass on  *)
(*   SpecSubs     calls of generateASSSubtitles                            *)
(*   SpecMix      calls of mixAudio                                        *)
(*   SpecStore    the calls of jobs that write to caches and workspaces    *)
(*   SpecRoute    concurrent requests to POST /api/videos/generate         *)
(*   SpecAuth     requests to the login and user administration routes     *)
(*                                                                         *)
(* Strings are sequences of one-character strings, so that lowercasing,    *)
(* whitespace splitting and substring tests are computed as the code       *)
(* computes them.                                                          *)
(***************************************************************************)
EXTENDS Integers, Sequences, FiniteSets, TLC

VARIABLES
    \* ---- durable store and cache directory (shared by the footage specs)
    clips,        \* cached_video_clips: sequence of rows, in insertion order
    nextId,       \* the serial primary key's next value
    cacheFiles,   \* provider IDs whose file exists under public/cache/videos
    \* ---- SpecMerge: concurrent downloadVideo calls
    mjob,         \* per caller: position in downloadVideo and its locals
    mlog,         \* history: what each finished call did
    mcalls,       \* history: number of calls started
    \* ---- SpecSpeech: concurrent generateSpeech calls
    voiceCache,   \* public/cache/voiceovers: cache key -> stored audio
    voiceOut,     \* per caller: the audio at its outputPath
    sjob,         \* per caller: position in generateSpeech and its locals
    slog,         \* history: the finished calls
    synthCount,   \* history: successful synthesis calls per (clean text, language)
    scalls,       \* history: number of calls started
    \* ---- SpecCascade: successive runs of searchAndDownloadVideos
    apiKey,       \* whether PEXELS_API_KEY is set
    library,      \* media_library rows, newest first
    run,          \* the locals of searchAndDownloadVideos and its position
    sceneLog,     \* history: how each scene of the current run ended
    fetches,      \* history: remote file downloads per provider ID
    requested,    \* history: search terms of the scenes each provider ID resolved
    lastJob,      \* history: generateVideo's footage check of the last run
    runs,         \* history: number of runs started
    tally,        \* history: the external calls of the scene in progress
    \* ---- SpecJob: concurrent generateVideo jobs
    now,          \* Date.now(), in milliseconds
    dirs,         \* /tmp/video-gen: per workspace, whether it exists and its entries
    gjob,         \* per job: position in generateVideo and its locals
    procs,        \* per job: the ffmpeg process of each per-clip transform
    rmBusy,       \* the job whose synchronous fs.rmSync is in progress (0: none)
    \* ---- SpecFind: calls of findCachedClips on a clip table
    fcall,        \* the last call: its arguments, what it read and what it returned
    \* ---- SpecPipe: one generateVideo job and the values its stages pass on
    pjob,         \* the job: its options, its locals, its position and its history
    musicDir,     \* client/public/music: the moods whose track is cached
    \* ---- SpecSubs, SpecMix: calls of generateASSSubtitles and of mixAudio
    ass,          \* the last call of generateASSSubtitles and the track it returned
    mix,          \* the last call of mixAudio and the mix it ran
    \* ---- SpecStore: the calls of jobs that write to the caches and workspaces
    kjob,         \* the last call: what was called and how it ended
    \* ---- SpecRoute: requests to POST /api/videos/generate
    req,          \* per request: position in the handler, its row, the events sent
    generations,  \* video_generations: the status of each row, by id
    \* ---- SpecAuth: requests to the user administration routes
    users,        \* the users table: the row of each id ever given
    sessions,     \* per client: the userId and userRole of its session
    acted         \* the last request: its route and the user of its session

dbVars == <<clips, nextId, cacheFiles>>
mergeVars == <<mjob, mlog, mcalls>>
speechVars == <<voiceCache, voiceOut, sjob, slog, synthCount, scalls>>
cascadeVars == <<apiKey, library, run, sceneLog, fetches, requested, lastJob, runs, tally>>
jobVars == <<now, dirs, gjob, procs, rmBusy>>
findVars == <<fcall>>
composeVars == <<pjob, musicDir, ass, mix>>
serverVars == <<kjob, req, generations, users, sessions, acted>>
vars == <<dbVars, mergeVars, speechVars, cascadeVars, jobVars, findVars, serverVars,
          composeVars>>

----------------------------------------------------------------------------
(* Strings *)

\* String.prototype.toLowerCase on one character of the model's alphabet
LowerChar(c) ==
    CASE c = "S" -> "s"
      [] c = "A" -> "a"
      [] OTHER -> c

\* String.prototype.toLowerCase
ToLower(s) == [i \in 1..Len(s) |-> LowerChar(s[i])]

\* the characters /\s/ matches
IsSpace(c) == c = " "

\* String.prototype.trim
RECURSIVE TrimLeft(_)
TrimLeft(s) ==
    IF s # <<>> /\ IsSpace(Head(s)) THEN TrimLeft(Tail(s)) ELSE s

RECURSIVE TrimRight(_)
TrimRight(s) ==
    IF s # <<>> /\ IsSpace(s[Len(s)]) THEN TrimRight(SubSeq(s, 1, Len(s) - 1)) ELSE s

Trim(s) == TrimRight(TrimLeft(s))

\* String.prototype.split(/\s+/): the pieces between maximal runs of
\* whitespace; a leading or trailing run yields an empty piece, and the
\* empty string splits into one empty piece.
RECURSIVE SplitFrom(_, _, _)
SplitFrom(s, i, cur) ==
    IF i > Len(s) THEN <<cur>>
    ELSE IF IsSpace(s[i])
         THEN IF i > 1 /\ IsSpace(s[i - 1])
              THEN SplitFrom(s, i + 1, cur)
              ELSE <<cur>> \o SplitFrom(s, i + 1, <<>>)
         ELSE SplitFrom(s, i + 1, Append(cur, s[i]))

SplitWs(s) == SplitFrom(s, 1, <<>>)

\* String.prototype.includes: sub occurs in s as a contiguous piece
Includes(s, sub) ==
    \E i \in 0..(Len(s) - Len(sub)) : SubSeq(s, i + 1, i + Len(sub)) = sub

Range(seq) == {seq[i] : i \in 1..Len(seq)}

\* Math.max, Math.min
MathMax(a, b) == IF a >= b THEN a ELSE b
MathMin(a, b) == IF a <= b THEN a ELSE b

\* string literals of the program and of the inputs
sEmpty == <<>>
sSky == <<"s", "k", "y">>
sSkyCap == <<"S", "k", "y">>
sSea == <<"s", "e", "a">>
sSkySea == <<"s", "k", "y", " ", "s", "e", "a">>
sBlank == <<" ", " ">>
sAOn == <<"a", " ", "o", "n">>
sSkySky == <<"s", "k", "y", " ", "S", "k", "y">>
sASkyOnSea == <<"a", " ", "s", "k", "y", " ", " ", "o", "n", " ", "s", "e", "a">>
sSeaSkyOnASky == <<" ", "s", "e", "a", " ", "s", "k", "y", " ", "o", "n", " ", "a",
                   " ", "{", "s", "k", "y", "}">>
sUncategorized == <<"u", "n", "c", "a", "t", "e", "g", "o", "r", "i", "z", "e", "d">>

----------------------------------------------------------------------------
(* Inputs and initial values of the footage cascade *)

MaxRuns == 1
MaxScenes == 2
ProviderIds == {1, 2}

\* what one remote search can return: the videos, in the provider's order
ResultLists == {<<>>, <<1>>, <<2>>, <<1, 2>>}

\* what searchVideos does: it throws, or returns the provider's videos
SearchResults ==
    {[ok |-> FALSE, videos |-> <<>>]} \cup {[ok |-> TRUE, videos |-> v] : v \in ResultLists}

\* scene descriptions a script can carry
SceneQueryInputs == {sSkyCap, sSkySea, sEmpty}

\* options.prompt
PromptInput == sSea

\* options.scenes: absent, or an array of scene descriptions
NoScenes == <<"absent">>
SceneInputs ==
    {NoScenes} \cup UNION {[1..n -> SceneQueryInputs] : n \in 0..MaxScenes}

\* the media library's rows
MediaSky ==
    [id |-> 1, title |-> sSkyCap, description |-> sEmpty, tags |-> {sSky},
     orientation |-> "landscape", fileExists |-> TRUE]
MediaSea ==
    [id |-> 2, title |-> sSea, description |-> sSea, tags |-> {},
     orientation |-> "landscape", fileExists |-> FALSE]
LibraryInputs == {<<>>, <<MediaSea, MediaSky>>}

RunIdle == [pc |-> "idle"]

\* no external call was made yet: the tier of the last call, whether the
\* calls came in tier order and none after a hit, the tier that resolved the
\* scene, the calls per tier, the videos of the last search result and the
\* download attempts on them, the kind of failure of the last call, whether
\* a request went to the provider during the run, and whether step 4 ran
\* while the cache held a usable clip.  The counts of a search
\* result and of step 4 are kept until the next search.
NoTally ==
    [scene |-> 0, last |-> 0, ordered |-> TRUE, late |-> FALSE, hit |-> 0,
     lib |-> 0, cache |-> 0, search3 |-> 0, lookup4 |-> 0, search5 |-> 0,
     results |-> 0, dl |-> 0, failed |-> "none", net |-> FALSE, usable4 |-> FALSE]
NoJob == [aborted |-> "none"]

\* the cascade's variables while no run was ever started (the library and
\* the API key are the deployment's)
CascadeIdle ==
    /\ apiKey = TRUE
    /\ library = <<>>
    /\ run = RunIdle
    /\ sceneLog = <<>>
    /\ fetches = [v \in ProviderIds |-> 0]
    /\ requested = [v \in ProviderIds |-> {}]
    /\ lastJob = NoJob
    /\ runs = 0
    /\ tally = NoTally

----------------------------------------------------------------------------
(* The voiceover cache (audio.ts) *)

\* A narration text is held as its first 4096 characters (head) and what
\* follows them (tail); only a head of full length has a non-empty tail.
SpeechTexts ==
    { [head |-> "short", tail |-> ""],
      [head |-> "full", tail |-> ""],
      [head |-> "full", tail |-> "x"],
      [head |-> "full", tail |-> "y"] }
SpeechLanguages == {"en", "id"}

\* no truncation: the whole text is the clean text
CleanTextWhole(text) == text

\* text.substring(0, 4096)
CleanText(text) == [head |-> text.head, tail |-> ""]

\* getVoiceoverCacheKey: md5 of `${text}_${language}`, taken as collision-free
GetVoiceoverCacheKey(text, language) == [text |-> text, language |-> language]

SpeechKeys == [text : SpeechTexts, language : SpeechLanguages]

NoAudio == [take |-> 0]

SpeechJobs == {1, 2}
MaxSpeechCalls == 3

SIdle == [pc |-> "idle"]

\* the speech variables of a state in which no call was ever made
SpeechIdle ==
    /\ voiceCache = [k \in SpeechKeys |-> NoAudio]
    /\ voiceOut = [j \in SpeechJobs |-> NoAudio]
    /\ sjob = [j \in SpeechJobs |-> SIdle]
    /\ slog = {}
    /\ synthCount = [k \in SpeechKeys |-> 0]
    /\ scalls = 0

----------------------------------------------------------------------------
(* The generation job and its workspace (videoGenerator.ts) *)

GenJobs == {1, 2}

\* the clock values at which a job can start
MaxClock == 2

\* the most clips the footage step hands to the parallel transforms
MaxClips == 2

\* workDir = TEMP_DIR/video_<Date.now()>: one directory per clock value
WorkDirs == 1..MaxClock

ClipIndexes == 0..(MaxClips - 1)

\* a directory entry: a fixed name, or a per-clip name with its index
File(name) == [name |-> name, i |-> 0]
SourceFile(i) == [name |-> "pexels.mp4", i |-> i]
ClipFile(i) == [name |-> "clip.mp4", i |-> i]

NoDir == [exists |-> FALSE, files |-> {}]

GIdle == [pc |-> "idle", workDir |-> 0, voiceoverPath |-> FALSE, nclips |-> 0,
          stage |-> "none", left |-> FALSE]

\* the job variables of a state in which no job was ever started
JobIdle ==
    /\ now = 1
    /\ dirs = [d \in WorkDirs |-> NoDir]
    /\ gjob = [j \in GenJobs |-> GIdle]
    /\ procs = [j \in GenJobs |-> [i \in ClipIndexes |-> "none"]]
    /\ rmBusy = 0

\* findCachedClips was not called yet
NoFind == [called |-> FALSE]

FindIdle == fcall = NoFind

\* generateVideo was not called yet
PIdle == [pc |-> "idle"]

\* generateASSSubtitles, mixAudio: not called yet
NoCall == [called |-> FALSE]

\* no call was made yet
KIdle == [op |-> "none", calls |-> 0]

\* the requests of the model
Requests == {1, 2}

\* no request was received
RIdle == [pc |-> "idle", id |-> 0, events |-> <<>>, response |-> "none"]

\* the browsers that hold a session
Clients == {1, 2}

SUPERADMIN_USERNAME == "adhielesmana"

\* no row (never created, or deleted), no session, no request
NoUser == [username |-> "none", role |-> "none"]
NoSession == [userId |-> 0, userRole |-> "none"]
NoRequest == [route |-> "none", by |-> 0]

\* the users table after initializeSuperAdmin
FirstUsers ==
    <<[username |-> SUPERADMIN_USERNAME, role |-> "superadmin"]>>

ServerIdle ==
    /\ kjob = KIdle
    /\ req = [r \in Requests |-> RIdle]
    /\ generations = <<>>
    /\ users = FirstUsers
    /\ sessions = [c \in Clients |-> NoSession]
    /\ acted = NoRequest

ComposeIdle ==
    /\ pjob = PIdle
    /\ musicDir = {}
    /\ ass = NoCall
    /\ mix = NoCall

----------------------------------------------------------------------------
(* The durable clip table (storage.ts) *)

\* "no row": what a select that matches nothing destructures to (undefined)
NoClip == [id |-> 0]

\* getCachedClipByPexelsId: the first row with that provider ID
GetCachedClipByPexelsId(db, pexelsId) ==
    LET m == SelectSeq(db, LAMBDA r : r.pexelsId = pexelsId)
    IN IF m = <<>> THEN NoClip ELSE m[1]

\* select ... where id = $1 limit 1 (addSearchTermToClip's read)
GetClipById(db, id) ==
    LET m == SelectSeq(db, LAMBDA r : r.id = id)
    IN IF m = <<>> THEN NoClip ELSE m[1]

\* saveCachedClip: "ensure searchTerms is never empty"
SaveTerms(searchTerms) ==
    IF searchTerms # {} THEN searchTerms ELSE {sUncategorized}

\* saveCachedClip: Array.from(new Set([...existing.searchTerms, ...terms]))
SaveMerged(existing, terms) == existing.searchTerms \cup terms

\* saveCachedClip: update ... set filePath, searchTerms where pexelsId = $1
SaveUpdate(db, pexelsId, filePath, allTerms) ==
    [i \in 1..Len(db) |->
        IF db[i].pexelsId = pexelsId
        THEN [db[i] EXCEPT !.filePath = filePath, !.searchTerms = allTerms]
        ELSE db[i]]

\* a table without the unique constraint: every insert is accepted
InsertUnchecked(db, pexelsId) == TRUE

\* the unique constraint on pexels_id: an insert of a present ID is refused
InsertAllowed(db, pexelsId) == \A i \in 1..Len(db) : db[i].pexelsId # pexelsId

\* saveCachedClip: insert ... values ({...data, searchTerms: terms})
SaveInsert(db, id, pexelsId, filePath, terms, orientation) ==
    Append(db, [id |-> id, pexelsId |-> pexelsId, filePath |-> filePath,
                searchTerms |-> terms, orientation |-> orientation])

\* addSearchTermToClip: Array.from(new Set([...clip[0].searchTerms, searchTerm]))
AddNewTerms(row, searchTerm) == row.searchTerms \cup {searchTerm}

\* addSearchTermToClip: update ... set searchTerms where id = $1
AddUpdate(db, id, newTerms) ==
    [i \in 1..Len(db) |->
        IF db[i].id = id THEN [db[i] EXCEPT !.searchTerms = newTerms] ELSE db[i]]

\* downloadVideo: searchTerms: searchTerm ? [searchTerm.toLowerCase()] : []
DataTerms(searchTerm) == IF searchTerm # sEmpty THEN {ToLower(searchTerm)} ELSE {}

\* downloadVideo: searchTerm && !cachedClip.searchTerms.includes(searchTerm.toLowerCase())
NeedsTerm(cachedClip, searchTerm) ==
    searchTerm # sEmpty /\ ToLower(searchTerm) \notin cachedClip.searchTerms

\* downloadVideo: cachedClip && fs.existsSync(cachedClip.filePath)
CacheLive(cachedClip, files) ==
    cachedClip # NoClip /\ cachedClip.filePath \in files

\* the stored terms of a provider ID ({} when it has no row)
TermsOf(db, pexelsId) ==
    LET c == GetCachedClipByPexelsId(db, pexelsId)
    IN IF c = NoClip THEN {} ELSE c.searchTerms

----------------------------------------------------------------------------
(* Query processing (pexels.ts, storage.ts) *)

\* FALLBACK_QUERIES
FALLBACK_QUERIES ==
    << <<"n", "a", "t", "u", "r", "e">>,
       <<"c", "i", "t", "y">>,
       <<"t", "e", "c", "h", "n", "o", "l", "o", "g", "y">>,
       <<"a", "b", "s", "t", "r", "a", "c", "t">>,
       <<"s", "k", "y">>,
       <<"o", "c", "e", "a", "n">>,
       <<"b", "u", "s", "i", "n", "e", "s", "s">>,
       <<"p", "e", "o", "p", "l", "e", " ", "w", "a", "l", "k", "i", "n", "g">>,
       <<"t", "r", "a", "f", "f", "i", "c">>,
       <<"c", "l", "o", "u", "d", "s">> >>

\* emergencyQueries of step 5
EmergencyQueries ==
    << <<"n", "a", "t", "u", "r", "e">>,
       <<"s", "k", "y">>,
       <<"w", "a", "t", "e", "r">>,
       <<"c", "i", "t", "y">>,
       <<"a", "b", "s", "t", "r", "a", "c", "t">> >>

\* stopWords of simplifyQuery
StopWords ==
    { <<"t", "h", "e">>,
      <<"a">>,
      <<"a", "n">>,
      <<"a", "n", "d">>,
      <<"o", "r">>,
      <<"b", "u", "t">>,
      <<"i", "n">>,
      <<"o", "n">>,
      <<"a", "t">>,
      <<"t", "o">>,
      <<"f", "o", "r">>,
      <<"o", "f">>,
      <<"w", "i", "t", "h">>,
      <<"b", "y">> }

\* Array.prototype.join(" ")
RECURSIVE JoinSpace(_)
JoinSpace(words) ==
    IF words = <<>> THEN <<>>
    ELSE IF Len(words) = 1 THEN words[1]
         ELSE words[1] \o <<" ">> \o JoinSpace(Tail(words))

\* Array.prototype.slice(0, n)
Slice(seq, n) == SubSeq(seq, 1, IF Len(seq) < n THEN Len(seq) ELSE n)

\* Array.from(new Set(seq)): the first occurrence of each element, in order
RECURSIVE Unique(_)
Unique(seq) ==
    IF seq = <<>> THEN <<>>
    ELSE LET init == Unique(SubSeq(seq, 1, Len(seq) - 1))
             last == seq[Len(seq)]
         IN IF last \in Range(init) THEN init ELSE Append(init, last)

\* searchTerm.toLowerCase().trim().split(/\s+/).filter(w => w.length > 2)
SearchWords(query) ==
    SelectSeq(SplitWs(Trim(ToLower(query))), LAMBDA w : Len(w) > 2)

\* simplifyQuery
SimplifyQuery(query) ==
    LET words == Slice(SelectSeq(SplitWs(ToLower(query)),
                                 LAMBDA w : w \notin StopWords /\ Len(w) > 2), 2)
        joined == JoinSpace(words)
    IN IF joined # <<>> THEN joined ELSE SplitWs(query)[1]

\* step 3: queryWords
QueryWords(query) == SelectSeq(SplitWs(ToLower(query)), LAMBDA w : Len(w) > 2)

\* step 3: queriesToTry, with its repeated queries
QueriesToTry(query) ==
    <<query, SimplifyQuery(query)>> \o Slice(QueryWords(query), 3)
        \o FALLBACK_QUERIES

\* step 3: uniqueQueries
UniqueQueries(query) ==
    Unique(<<query, SimplifyQuery(query)>> \o Slice(QueryWords(query), 3)
           \o FALLBACK_QUERIES)

\* stable sort by descending score: Array.prototype.sort((a, b) => b.score - a.score)
\* on the entries with a positive score
RECURSIVE ByScoreFrom(_, _, _)
ByScoreFrom(seq, Score, s) ==
    IF s < 1 THEN <<>>
    ELSE SelectSeq(seq, LAMBDA x : Score[x.id] = s) \o ByScoreFrom(seq, Score, s - 1)

\* findCachedClips: the inner loop on the clip's terms, which counts the word
\* at the first term that matches and breaks, so it counts every term
WordPointsNoBreak(word, clip) ==
    Cardinality({term \in clip.searchTerms :
                    Includes(term, word) \/ Includes(word, term)})

\* findCachedClips: the inner loop on the clip's terms, which counts the word
\* at the first term that matches and breaks
WordPoints(word, clip) ==
    IF \E term \in clip.searchTerms : Includes(term, word) \/ Includes(word, term)
    THEN 1 ELSE 0

\* findCachedClips: the score of one clip, the outer loop on the search words
RECURSIVE ClipScore(_, _)
ClipScore(searchWords, clip) ==
    IF searchWords = <<>> THEN 0
    ELSE WordPoints(Head(searchWords), clip) + ClipScore(Tail(searchWords), clip)

\* findCachedClips: .limit(50) of the select
FetchLimit == 50

\* findCachedClips: the select by orientation, in the order the store returns
\* the rows (db is the table in that order)
FetchClips(db, orientation) ==
    Slice(SelectSeq(db, LAMBDA r : r.orientation = orientation), FetchLimit)

\* findCachedClips: scoredClips
ScoredClips(fetched, searchWords) ==
    [i \in 1..Len(fetched) |->
        [clip |-> fetched[i], score |-> ClipScore(searchWords, fetched[i])]]

\* findCachedClips: filter(score > 0), sort by descending score, slice, map
RankClips(scored, limit) ==
    LET ids == {scored[i].clip.id : i \in 1..Len(scored)}
        At == [id \in ids |-> CHOOSE i \in 1..Len(scored) : scored[i].clip.id = id]
        ScoreOf == [id \in ids |-> scored[At[id]].score]
        top == IF ids = {} THEN 0
               ELSE CHOOSE m \in {ScoreOf[id] : id \in ids} :
                        \A id \in ids : ScoreOf[id] <= m
        fetched == [i \in 1..Len(scored) |-> scored[i].clip]
    IN Slice(ByScoreFrom(fetched, ScoreOf, top), limit)

\* findCachedClips: the select is made before the check of the search words
ReadsStoreAlways(searchWords) == TRUE

\* findCachedClips: the early return when no search word is left comes
\* before the select
ReadsStore(searchWords) == searchWords # <<>>

\* findCachedClips
FindCachedClips(db, searchTerm, orientation, limit) ==
    LET searchWords == SearchWords(searchTerm)
    IN IF ~ReadsStore(searchWords) THEN <<>>
       ELSE RankClips(ScoredClips(FetchClips(db, orientation), searchWords), limit)

\* searchMediaItems: the score of one item
MediaScoreOfWord(word, item) ==
    (IF Includes(ToLower(item.title), word) THEN 3 ELSE 0)
    + (IF Includes(ToLower(item.description), word) THEN 2 ELSE 0)
    + (IF \E tag \in item.tags : Includes(tag, word) THEN 2 ELSE 0)

RECURSIVE MediaScore(_, _)
MediaScore(searchWords, item) ==
    IF searchWords = <<>> THEN 0
    ELSE MediaScoreOfWord(Head(searchWords), item) + MediaScore(Tail(searchWords), item)

\* searchMediaItems
SearchMediaItems(lib, query, orientation) ==
    LET searchWords == SearchWords(query)
        items == SelectSeq(Slice(lib, 100), LAMBDA it : it.orientation = orientation)
        Score == [id \in {items[i].id : i \in 1..Len(items)} |->
                     MediaScore(searchWords,
                                SelectSeq(items, LAMBDA it : it.id = id)[1])]
    IN IF searchWords = <<>> THEN items
       ELSE ByScoreFrom(items, Score, 7 * Len(searchWords))

----------------------------------------------------------------------------
(* SpecMerge: callers of downloadVideo running concurrently, one step per  *)
(* awaited storage or network call                                         *)

MaxMergeCalls == 3
MergeJobs == {1, 2}
MergePids == {1, 2}
MergeTermInputs == {sSkyCap, sSea, sSkySea, sEmpty}
Orientations == {"landscape", "portrait"}

MIdle == [pc |-> "idle"]

InitialClips ==
    << [id |-> 1, pexelsId |-> 1, filePath |-> 1,
        searchTerms |-> {sSky}, orientation |-> "landscape"] >>

MergeInit ==
    /\ clips = InitialClips
    /\ nextId = 2
    /\ cacheFiles = {1}
    /\ mjob = [j \in MergeJobs |-> MIdle]
    /\ mlog = {}
    /\ mcalls = 0
    /\ SpeechIdle
    /\ CascadeIdle
    /\ JobIdle
    /\ FindIdle
    /\ ComposeIdle
    /\ ServerIdle

\* downloadVideo is called
MDownloadCall(j, pid, term, orientation) ==
    /\ mjob[j].pc = "idle"
    /\ mcalls < MaxMergeCalls
    /\ mcalls' = mcalls + 1
    /\ mjob' = [mjob EXCEPT ![j] =
            [pc |-> "lookup", pid |-> pid, term |-> term, orientation |-> orientation,
             snap |-> NoClip]]
    /\ UNCHANGED <<dbVars, mlog>>
    /\ UNCHANGED <<speechVars, cascadeVars, jobVars, findVars, serverVars, composeVars>>

MReturn(j, how) ==
    /\ mjob' = [mjob EXCEPT ![j] = MIdle]
    /\ mlog' = mlog \cup {[job |-> j, pid |-> mjob[j].pid, term |-> mjob[j].term,
                           how |-> how]}

\* await storage.getCachedClipByPexelsId(video.id), and the branch on it
MLookup(j) ==
    /\ mjob[j].pc = "lookup"
    /\ LET cachedClip == GetCachedClipByPexelsId(clips, mjob[j].pid)
       IN IF CacheLive(cachedClip, cacheFiles)
          THEN IF NeedsTerm(cachedClip, mjob[j].term)
               THEN /\ mjob' = [mjob EXCEPT ![j].pc = "add_read", ![j].snap = cachedClip]
                    /\ UNCHANGED mlog
               ELSE MReturn(j, "hit")
          ELSE /\ mjob' = [mjob EXCEPT ![j].pc = "fetch"]
               /\ UNCHANGED mlog
    /\ UNCHANGED <<dbVars, mcalls>>
    /\ UNCHANGED <<speechVars, cascadeVars, jobVars, findVars, serverVars, composeVars>>

\* if (!fs.existsSync(cachePath)) { fetch; writeFileSync }
MFetch(j) ==
    /\ mjob[j].pc = "fetch"
    /\ IF mjob[j].pid \in cacheFiles
       THEN /\ mjob' = [mjob EXCEPT ![j].pc = "save_read"]
            /\ UNCHANGED <<cacheFiles, mlog>>
       ELSE \E ok \in BOOLEAN :
              IF ok
              THEN /\ cacheFiles' = cacheFiles \cup {mjob[j].pid}
                   /\ mjob' = [mjob EXCEPT ![j].pc = "save_read"]
                   /\ UNCHANGED mlog
              ELSE /\ MReturn(j, "fetch_failed")
                   /\ UNCHANGED cacheFiles
    /\ UNCHANGED <<clips, nextId, mcalls>>
    /\ UNCHANGED <<speechVars, cascadeVars, jobVars, findVars, serverVars, composeVars>>

\* saveCachedClip: existing = await this.getCachedClipByPexelsId(data.pexelsId)
MSaveRead(j) ==
    /\ mjob[j].pc = "save_read"
    /\ mjob' = [mjob EXCEPT ![j].pc = "save_write",
                            ![j].snap = GetCachedClipByPexelsId(clips, mjob[j].pid)]
    /\ UNCHANGED <<dbVars, mlog, mcalls>>
    /\ UNCHANGED <<speechVars, cascadeVars, jobVars, findVars, serverVars, composeVars>>

\* saveCachedClip: the update of the existing row, or the insert
MSaveWrite(j) ==
    /\ mjob[j].pc = "save_write"
    /\ LET pid == mjob[j].pid
           terms == SaveTerms(DataTerms(mjob[j].term))
           existing == mjob[j].snap
       IN IF existing # NoClip
          THEN /\ clips' = SaveUpdate(clips, pid, pid, SaveMerged(existing, terms))
               /\ UNCHANGED nextId
               /\ MReturn(j, "saved")
          ELSE IF InsertAllowed(clips, pid)
               THEN /\ clips' = SaveInsert(clips, nextId, pid, pid, terms,
                                           mjob[j].orientation)
                    /\ nextId' = nextId + 1
                    /\ MReturn(j, "saved")
               ELSE /\ UNCHANGED <<clips, nextId>>
                    /\ MReturn(j, "insert_refused")
    /\ UNCHANGED <<cacheFiles, mcalls>>
    /\ UNCHANGED <<speechVars, cascadeVars, jobVars, findVars, serverVars, composeVars>>

\* addSearchTermToClip: clip = await db.select()...where(id)
MAddRead(j) ==
    /\ mjob[j].pc = "add_read"
    /\ mjob' = [mjob EXCEPT ![j].pc = "add_write",
                            ![j].snap = GetClipById(clips, mjob[j].snap.id)]
    /\ UNCHANGED <<dbVars, mlog, mcalls>>
    /\ UNCHANGED <<speechVars, cascadeVars, jobVars, findVars, serverVars, composeVars>>

\* addSearchTermToClip: the update with the terms computed from the read
MAddWrite(j) ==
    /\ mjob[j].pc = "add_write"
    /\ LET row == mjob[j].snap
       IN IF row # NoClip
          THEN clips' = AddUpdate(clips, row.id, AddNewTerms(row, ToLower(mjob[j].term)))
          ELSE UNCHANGED clips
    /\ MReturn(j, "added")
    /\ UNCHANGED <<nextId, cacheFiles, mcalls>>
    /\ UNCHANGED <<speechVars, cascadeVars, jobVars, findVars, serverVars, composeVars>>

MergeNext ==
    \/ \E j \in MergeJobs, pid \in MergePids, term \in MergeTermInputs,
          o \in Orientations : MDownloadCall(j, pid, term, o)
    \/ \E j \in MergeJobs : MLookup(j)
    \/ \E j \in MergeJobs : MFetch(j)
    \/ \E j \in MergeJobs : MSaveRead(j)
    \/ \E j \in MergeJobs : MSaveWrite(j)
    \/ \E j \in MergeJobs : MAddRead(j)
    \/ \E j \in MergeJobs : MAddWrite(j)

SpecMerge == MergeInit /\ [][MergeNext]_vars

\* the calls that returned a path to their caller
MergeReturned == {e \in mlog : e.how \in {"hit", "saved", "added"}}

\* C3: when concurrent callers have merged search terms into a cached clip
\* and all have returned, the clip's terms hold every merged term and
\* everything the clip held before; no writer's term is lost.
C3_NoMergedTermLost ==
    (\A j \in MergeJobs : mjob[j].pc = "idle") =>
        /\ InitialClips[1].searchTerms \subseteq TermsOf(clips, 1)
        /\ \A e \in MergeReturned :
              e.term # sEmpty => ToLower(e.term) \in TermsOf(clips, e.pid)

\* C4: every step leaves every cached clip's term set a superset of what
\* it was; no step removes a term.
C4_TermsOnlyGrow ==
    [][\A i \in 1..Len(clips) :
          clips[i].searchTerms \subseteq TermsOf(clips', clips[i].pexelsId)]_vars

----------------------------------------------------------------------------
(* SpecSpeech: callers of generateSpeech running concurrently *)

\* the finished calls that returned their output path
SpeechSucceeded == {e \in slog : e.how \in {"hit", "synthesized"}}

\* the audio stored by the calls that have succeeded for a text with the
\* same first 4096 characters and the same language
StoredBefore(text, language) ==
    {e.out : e \in {x \in SpeechSucceeded :
                        x.text.head = text.head /\ x.language = language}}

\* generateSpeech up to its first await: the cache lookup, and on a hit the
\* copy of the cached file to outputPath
SGenerateSpeech(j, text, language) ==
    /\ sjob[j].pc = "idle"
    /\ scalls < MaxSpeechCalls
    /\ scalls' = scalls + 1
    /\ LET cacheKey == GetVoiceoverCacheKey(CleanText(text), language)
           prior == StoredBefore(text, language)
       IN IF voiceCache[cacheKey] # NoAudio
          THEN /\ voiceOut' = [voiceOut EXCEPT ![j] = voiceCache[cacheKey]]
               /\ slog' = slog \cup {[job |-> j, text |-> text, language |-> language,
                                      how |-> "hit", out |-> voiceCache[cacheKey],
                                      prior |-> prior, call |-> scalls + 1]}
               /\ UNCHANGED sjob
          ELSE /\ sjob' = [sjob EXCEPT ![j] =
                      [pc |-> "synth", text |-> text, language |-> language,
                       key |-> cacheKey, prior |-> prior, call |-> scalls + 1]]
               /\ UNCHANGED <<voiceOut, slog>>
    /\ UNCHANGED <<voiceCache, synthCount>>
    /\ UNCHANGED <<dbVars, mergeVars, cascadeVars, jobVars, findVars, serverVars, composeVars>>

\* openai.audio.speech.create returns: the audio is written to outputPath
\* and to the cache
SSynthesisReturns(j) ==
    /\ sjob[j].pc = "synth"
    /\ LET k == sjob[j].key
           buffer == [take |-> synthCount[k] + 1, text |-> k.text,
                      language |-> k.language]
       IN /\ synthCount' = [synthCount EXCEPT ![k] = @ + 1]
          /\ voiceOut' = [voiceOut EXCEPT ![j] = buffer]
          /\ voiceCache' = [voiceCache EXCEPT ![k] = buffer]
          /\ slog' = slog \cup {[job |-> j, text |-> sjob[j].text,
                                 language |-> sjob[j].language,
                                 how |-> "synthesized", out |-> buffer,
                                 prior |-> sjob[j].prior, call |-> sjob[j].call]}
    /\ sjob' = [sjob EXCEPT ![j] = SIdle]
    /\ UNCHANGED scalls
    /\ UNCHANGED <<dbVars, mergeVars, cascadeVars, jobVars, findVars, serverVars, composeVars>>

\* openai.audio.speech.create throws: generateSpeech throws, nothing is written
SSynthesisFails(j) ==
    /\ sjob[j].pc = "synth"
    /\ slog' = slog \cup {[job |-> j, text |-> sjob[j].text,
                           language |-> sjob[j].language,
                           how |-> "failed", out |-> NoAudio,
                           prior |-> sjob[j].prior, call |-> sjob[j].call]}
    /\ sjob' = [sjob EXCEPT ![j] = SIdle]
    /\ UNCHANGED <<voiceCache, voiceOut, synthCount, scalls>>
    /\ UNCHANGED <<dbVars, mergeVars, cascadeVars, jobVars, findVars, serverVars, composeVars>>

SpeechInit ==
    /\ SpeechIdle
    /\ CascadeIdle
    /\ JobIdle
    /\ FindIdle
    /\ ComposeIdle
    /\ ServerIdle
    /\ clips = <<>>
    /\ nextId = 1
    /\ cacheFiles = {}
    /\ mjob = [j \in MergeJobs |-> MIdle]
    /\ mlog = {}
    /\ mcalls = 0

SpeechNext ==
    \/ \E j \in SpeechJobs, text \in SpeechTexts, language \in SpeechLanguages :
          SGenerateSpeech(j, text, language)
    \/ \E j \in SpeechJobs : SSynthesisReturns(j)
    \/ \E j \in SpeechJobs : SSynthesisFails(j)

SpecSpeech == SpeechInit /\ [][SpeechNext]_vars

\* C5: over all generateSpeech calls of all jobs, the synthesis service is
\* invoked successfully at most once for every (text truncated to 4096
\* characters, language) pair.
C5_SynthesisAtMostOnce ==
    \A k \in SpeechKeys : synthCount[k] <= 1

----------------------------------------------------------------------------
(* SpecCascade: searchAndDownloadVideos, run after run, one step per awaited *)
(* storage or network call; downloadVideo and the storage calls it makes    *)
(* run without another caller in between                                    *)

\* saveCachedClip, without a concurrent writer
SaveCachedClip(db, id, pexelsId, filePath, searchTerms, orientation) ==
    LET terms == SaveTerms(searchTerms)
        existing == GetCachedClipByPexelsId(db, pexelsId)
    IN IF existing # NoClip
       THEN SaveUpdate(db, pexelsId, filePath, SaveMerged(existing, terms))
       ELSE SaveInsert(db, id, pexelsId, filePath, terms, orientation)

\* addSearchTermToClip, without a concurrent writer
AddSearchTermToClip(db, id, searchTerm) ==
    LET row == GetClipById(db, id)
    IN IF row # NoClip THEN AddUpdate(db, id, AddNewTerms(row, searchTerm)) ELSE db

\* what the outside world does to one downloadVideo call: nothing fails, the
\* video has no mp4 file, or the lookup, the file fetch or the storage write
\* fails when the call gets to it
DownloadOutcomes == {"ok", "no_file", "lookup_fails", "fetch_fails", "write_fails"}

\* downloadVideo with the record saved before the file is fetched
DownloadVideoRecordFirst(db, nid, files, pexelsId, searchTerm, orientation, oc) ==
    LET same == [ok |-> FALSE, clips |-> db, nextId |-> nid, cacheFiles |-> files,
                 fetched |-> FALSE]
        cachedClip == GetCachedClipByPexelsId(db, pexelsId)
        saved == [same EXCEPT
                    !.clips = SaveCachedClip(db, nid, pexelsId, pexelsId,
                                             DataTerms(searchTerm), orientation),
                    !.nextId = IF cachedClip = NoClip THEN nid + 1 ELSE nid]
    IN IF oc \in {"no_file", "lookup_fails"} THEN same
       ELSE IF CacheLive(cachedClip, files)
            THEN IF NeedsTerm(cachedClip, searchTerm) /\ oc # "write_fails"
                 THEN [same EXCEPT !.ok = TRUE,
                           !.clips = AddSearchTermToClip(db, cachedClip.id,
                                                         ToLower(searchTerm))]
                 ELSE [same EXCEPT !.ok = ~NeedsTerm(cachedClip, searchTerm)]
            ELSE IF oc = "write_fails" THEN same
                 ELSE IF pexelsId \notin files /\ oc = "fetch_fails" THEN saved
                      ELSE [saved EXCEPT !.ok = TRUE,
                                         !.cacheFiles = files \cup {pexelsId},
                                         !.fetched = pexelsId \notin files]

\* downloadVideo: [ok, clips, nextId, cacheFiles, fetched] after the call
DownloadVideo(db, nid, files, pexelsId, searchTerm, orientation, oc) ==
    LET same == [ok |-> FALSE, clips |-> db, nextId |-> nid, cacheFiles |-> files,
                 fetched |-> FALSE]
        cachedClip == GetCachedClipByPexelsId(db, pexelsId)
    IN IF oc \in {"no_file", "lookup_fails"} THEN same
       ELSE IF CacheLive(cachedClip, files)
            THEN IF NeedsTerm(cachedClip, searchTerm)
                 THEN IF oc # "write_fails"
                      THEN [same EXCEPT !.ok = TRUE,
                                !.clips = AddSearchTermToClip(db, cachedClip.id,
                                                              ToLower(searchTerm))]
                      ELSE same
                 ELSE [same EXCEPT !.ok = TRUE]
            ELSE IF pexelsId \notin files /\ oc = "fetch_fails" THEN same
                 ELSE LET fetched == pexelsId \notin files
                          onDisk == [same EXCEPT !.cacheFiles = files \cup {pexelsId},
                                                 !.fetched = fetched]
                      IN IF oc # "write_fails"
                         THEN [onDisk EXCEPT !.ok = TRUE,
                                   !.clips = SaveCachedClip(db, nid, pexelsId, pexelsId,
                                                 DataTerms(searchTerm), orientation),
                                   !.nextId = IF cachedClip = NoClip THEN nid + 1 ELSE nid]
                         ELSE onDisk

\* generateVideo: searchQueries = options.scenes?.map(s => s.description) || [options.prompt]
SearchQueries(scenes, prompt) == IF scenes = NoScenes THEN <<prompt>> ELSE scenes

\* generateVideo: limitedQueries = searchQueries.slice(0, 5)
LimitedQueries(scenes, prompt) == Slice(SearchQueries(scenes, prompt), 5)

\* orientation === "portrait" ? "landscape" : "portrait"
Opposite(orientation) == IF orientation = "portrait" THEN "landscape" ELSE "portrait"

\* step 5 walks through the queries of step 3
TierQueriesOfStep3(r) == UniqueQueries(r.queries[r.i])

\* the queries a download tier walks through: uniqueQueries or emergencyQueries
TierQueries(r) ==
    IF r.tier = 3 THEN UniqueQueries(r.queries[r.i]) ELSE EmergencyQueries

\* the search term a download tier hands to downloadVideo
TierTerm(r) == IF r.tier = 3 THEN r.queries[r.i] ELSE EmergencyQueries[r.k]

\* the orientation a download tier searches under: step 5 passes none, and
\* searchVideos then asks for "landscape"
TierSearchOrientation(r) == IF r.tier = 3 THEN r.orientation ELSE "landscape"

\* a used ID is never taken again
NotUsedNever(used, id) == TRUE

\* if (usedVideoIds.has(id)) continue / if (usedMediaIds.has(id)) continue
NotUsed(used, id) == id \notin used

\* a scene without footage leaves no notice
EndSceneSilent(r, found) ==
    IF r.i = Len(r.queries)
    THEN [r EXCEPT !.pc = "returned"]
    ELSE [r EXCEPT !.pc = "tier1", !.i = r.i + 1]

\* the loop ends for scene i: the notice when nothing was found, then the
\* next scene or the return
EndScene(r, found) ==
    LET r1 == IF found THEN r
              ELSE [r EXCEPT !.errors = Append(@, [notice |-> "No footage found for",
                                                   query |-> r.queries[r.i]])]
    IN IF r.i = Len(r.queries)
       THEN [r1 EXCEPT !.pc = "returned"]
       ELSE [r1 EXCEPT !.pc = "tier1", !.i = r.i + 1]

\* a hit that does not end the scene: the remote search runs all the same
ResolveGoOn(r, kind, id) ==
    [r EXCEPT !.downloadedPaths = Append(@, [kind |-> kind, id |-> id]),
              !.usedVideoIds = IF kind = "library" THEN @ ELSE @ \cup {id},
              !.usedMediaIds = IF kind = "library" THEN @ \cup {id} ELSE @,
              !.pc = "search", !.tier = 3, !.k = 1, !.videos = <<>>]

\* downloadedPaths.push(...); usedXIds.add(...); found = true
Resolve(r, kind, id) ==
    EndScene([r EXCEPT !.downloadedPaths = Append(@, [kind |-> kind, id |-> id]),
                       !.usedVideoIds = IF kind = "library" THEN @ ELSE @ \cup {id},
                       !.usedMediaIds = IF kind = "library" THEN @ \cup {id} ELSE @],
             TRUE)

\* a call of the given tier is made for the scene in progress
Attempt(t, tier) ==
    [t EXCEPT !.ordered = @ /\ t.last \in {tier - 1, tier},
              !.late = @ \/ t.hit # 0,
              !.last = tier,
              !.failed = "none"]

\* the scene that starts with the library lookup
SceneTally(scene) == [NoTally EXCEPT !.scene = scene, !.net = tally.net]

\* the call just made failed: a storage lookup, a remote search or a clip
\* download
Failed(t, kind) == [t EXCEPT !.failed = kind]

LogPath(tier, kind, id) ==
    sceneLog' = Append(sceneLog, [scene |-> run.i, end |-> "path", tier |-> tier,
                                  kind |-> kind, id |-> id])

LogNotice ==
    sceneLog' = Append(sceneLog, [scene |-> run.i, end |-> "notice", tier |-> 0,
                                  kind |-> "none", id |-> 0])

\* generateVideo calls searchAndDownloadVideos(limitedQueries, workDir, 1, orientation)
CStart(scenes, orientation) ==
    /\ run.pc = "idle"
    /\ runs < MaxRuns
    /\ runs' = runs + 1
    /\ LET queries == LimitedQueries(scenes, PromptInput)
       IN run' = [pc |-> IF queries = <<>> THEN "returned" ELSE "tier1",
                  queries |-> queries, orientation |-> orientation, i |-> 1,
                  tier |-> 0, k |-> 0, videos |-> <<>>,
                  usedVideoIds |-> {}, usedMediaIds |-> {},
                  downloadedPaths |-> <<>>, errors |-> <<>>]
    /\ sceneLog' = <<>>
    /\ lastJob' = NoJob
    /\ tally' = NoTally
    /\ UNCHANGED <<apiKey, library, fetches, requested>>
    /\ UNCHANGED <<dbVars, mergeVars, speechVars, jobVars, findVars, serverVars, composeVars>>

\* only a failed download is caught
CatchesDownloadOnly(site) == site = "download"

\* the try blocks of the loop body: an error thrown inside one is logged and
\* the loop goes on with the next candidate, query or step
Catches(site) == site \in {"library", "cache", "search", "download", "fallback"}

\* an error that no try block catches rejects the promise of the cascade
Escapes(r) == [r EXCEPT !.pc = "threw"]

\* step 1: the media library
CTier1(storageOk) ==
    /\ run.pc = "tier1"
    /\ LET t0 == Attempt([SceneTally(run.i) EXCEPT !.lib = 1], 1)
           items == SearchMediaItems(library, run.queries[run.i], run.orientation)
           usable == SelectSeq(items, LAMBDA it :
                          NotUsed(run.usedMediaIds, it.id) /\ it.fileExists)
       IN IF ~storageOk
          THEN /\ run' = IF Catches("library") THEN [run EXCEPT !.pc = "tier2"]
                         ELSE Escapes(run)
               /\ tally' = Failed(t0, "lookup")
               /\ UNCHANGED sceneLog
          ELSE IF usable # <<>>
               THEN /\ run' = Resolve(run, "library", usable[1].id)
                    /\ LogPath(1, "library", usable[1].id)
                    /\ tally' = [t0 EXCEPT !.hit = 1]
               ELSE /\ run' = [run EXCEPT !.pc = "tier2"]
                    /\ tally' = t0
                    /\ UNCHANGED sceneLog
    /\ UNCHANGED <<apiKey, library, fetches, requested, lastJob, runs>>
    /\ UNCHANGED <<dbVars, mergeVars, speechVars, jobVars, findVars, serverVars, composeVars>>

\* step 2: the footage cache, requested orientation
CTier2(storageOk) ==
    /\ run.pc = "tier2"
    /\ LET t0 == Attempt([tally EXCEPT !.cache = @ + 1], 2)
           cachedClips == FindCachedClips(clips, run.queries[run.i],
                                          run.orientation, 5)
           usable == SelectSeq(cachedClips, LAMBDA c :
                          NotUsed(run.usedVideoIds, c.pexelsId) /\ c.filePath \in cacheFiles)
       IN IF ~storageOk
          THEN /\ run' = IF Catches("cache")
                         THEN [run EXCEPT !.pc = "search", !.tier = 3, !.k = 1]
                         ELSE Escapes(run)
               /\ tally' = Failed(t0, "lookup")
               /\ UNCHANGED <<sceneLog, requested>>
          ELSE IF usable # <<>>
               THEN /\ run' = Resolve(run, "pexels", usable[1].pexelsId)
                    /\ LogPath(2, "pexels", usable[1].pexelsId)
                    /\ requested' = [requested EXCEPT ![usable[1].pexelsId] =
                                         @ \cup {ToLower(run.queries[run.i])}]
                    /\ tally' = [t0 EXCEPT !.hit = 2]
               ELSE /\ run' = [run EXCEPT !.pc = "search", !.tier = 3, !.k = 1]
                    /\ tally' = t0
                    /\ UNCHANGED <<sceneLog, requested>>
    /\ UNCHANGED <<apiKey, library, fetches, lastJob, runs>>
    /\ UNCHANGED <<dbVars, mergeVars, speechVars, jobVars, findVars, serverVars, composeVars>>

\* steps 3 and 5: the next query of the step goes to searchVideos, which
\* throws (no key, before any request; network; status) or returns the
\* provider's videos
CSearch(result) ==
    /\ run.pc = "search"
    /\ IF run.k > Len(TierQueries(run))
       THEN /\ IF run.tier = 3
               THEN /\ run' = [run EXCEPT !.pc = "tier4"]
                    /\ UNCHANGED sceneLog
               ELSE /\ run' = EndScene(run, FALSE)
                    /\ LogNotice
            /\ UNCHANGED tally
       ELSE LET t0 == Attempt([tally EXCEPT !.lookup4 = 0, !.usable4 = FALSE,
                                  !.search3 = IF run.tier = 3 THEN @ + 1 ELSE @,
                                  !.search5 = IF run.tier = 5 THEN @ + 1 ELSE @,
                                  !.net = @ \/ apiKey], run.tier)
            IN /\ IF ~apiKey \/ ~result.ok
                  THEN /\ run' = IF Catches("search") THEN [run EXCEPT !.k = @ + 1]
                                 ELSE Escapes(run)
                       /\ tally' = Failed(t0, "search")
                  ELSE /\ run' = [run EXCEPT !.pc = "download", !.videos = result.videos]
                       /\ tally' = [t0 EXCEPT !.results = Len(result.videos), !.dl = 0]
               /\ UNCHANGED sceneLog
    /\ UNCHANGED <<apiKey, library, fetches, requested, lastJob, runs>>
    /\ UNCHANGED <<dbVars, mergeVars, speechVars, jobVars, findVars, serverVars, composeVars>>

\* the videos the loop over a search result still has to look at
RECURSIVE DropUsed(_, _)
DropUsed(videos, used) ==
    IF videos # <<>> /\ ~NotUsed(used, Head(videos))
    THEN DropUsed(Tail(videos), used)
    ELSE videos

\* steps 3 and 5: downloadVideo for the next video that is not used yet
CDownload(oc) ==
    /\ run.pc = "download"
    /\ LET rest == DropUsed(run.videos, run.usedVideoIds)
       IN IF rest = <<>>
          THEN /\ run' = [run EXCEPT !.pc = "search", !.k = @ + 1, !.videos = <<>>]
               /\ tally' = [tally EXCEPT !.results = 0, !.dl = 0]
               /\ UNCHANGED <<dbVars, sceneLog, fetches, requested>>
          ELSE LET video == Head(rest)
                   d == DownloadVideo(clips, nextId, cacheFiles, video, TierTerm(run),
                                      run.orientation, oc)
                   t0 == Attempt([tally EXCEPT !.dl = @ + 1], run.tier)
               IN /\ clips' = d.clips
                  /\ nextId' = d.nextId
                  /\ cacheFiles' = d.cacheFiles
                  /\ fetches' = IF d.fetched THEN [fetches EXCEPT ![video] = @ + 1]
                                ELSE fetches
                  /\ IF d.ok
                     THEN /\ run' = Resolve([run EXCEPT !.videos = <<>>], "pexels", video)
                          /\ LogPath(run.tier, "pexels", video)
                          /\ requested' = [requested EXCEPT ![video] =
                                               @ \cup {ToLower(TierTerm(run))}]
                          /\ tally' = [t0 EXCEPT !.hit = run.tier]
                     ELSE /\ run' = IF Catches("download")
                                    THEN [run EXCEPT !.videos = Tail(rest)]
                                    ELSE Escapes(run)
                          /\ tally' = Failed(t0, "download")
                          /\ UNCHANGED <<sceneLog, requested>>
    /\ UNCHANGED <<apiKey, library, lastJob, runs>>
    /\ UNCHANGED <<mergeVars, speechVars, jobVars, findVars, serverVars, composeVars>>

\* step 4: any cached clip, requested orientation first, then the opposite;
\* the second lookup is made when the first gave no usable clip
CTier4(storageOk) ==
    /\ run.pc = "tier4"
    /\ LET Usable(o) == SelectSeq(FindCachedClips(clips, sEmpty, o, 20), LAMBDA c :
                            NotUsed(run.usedVideoIds, c.pexelsId)
                            /\ c.filePath \in cacheFiles)
           first == Usable(run.orientation)
           second == Usable(Opposite(run.orientation))
           usable == IF first # <<>> THEN first ELSE second
           t0 == Attempt([tally EXCEPT
                             !.lookup4 = IF storageOk /\ first = <<>> THEN 2 ELSE 1,
                             !.usable4 = storageOk /\ \E c \in Range(clips) :
                                            /\ c.pexelsId \notin run.usedVideoIds
                                            /\ c.filePath \in cacheFiles], 4)
       IN IF ~storageOk
          THEN /\ run' = IF Catches("fallback")
                         THEN [run EXCEPT !.pc = "search", !.tier = 5, !.k = 1]
                         ELSE Escapes(run)
               /\ tally' = Failed(t0, "lookup")
               /\ UNCHANGED <<sceneLog, requested>>
          ELSE IF usable # <<>>
               THEN /\ run' = Resolve(run, "fallback", usable[1].pexelsId)
                    /\ LogPath(4, "fallback", usable[1].pexelsId)
                    /\ requested' = [requested EXCEPT ![usable[1].pexelsId] =
                                         @ \cup {ToLower(run.queries[run.i])}]
                    /\ tally' = [t0 EXCEPT !.hit = 4]
               ELSE /\ run' = [run EXCEPT !.pc = "search", !.tier = 5, !.k = 1]
                    /\ tally' = t0
                    /\ UNCHANGED <<sceneLog, requested>>
    /\ UNCHANGED <<apiKey, library, fetches, lastJob, runs>>
    /\ UNCHANGED <<dbVars, mergeVars, speechVars, jobVars, findVars, serverVars, composeVars>>

\* the job is given up as soon as one scene has no footage
FootageAbortsOnNotice(videoPaths, searchErrors) ==
    Len(videoPaths) = 0 \/ Len(searchErrors) > 0

\* generateVideo: if (videoPaths.length === 0) throw
FootageAborts(videoPaths, searchErrors) == Len(videoPaths) = 0

\* generateVideo: the message of the error thrown at the footage stage
FootageErrorMsg(searchErrors) ==
    IF Len(searchErrors) > 0
    THEN [text |-> "Could not find stock footage.", notice |-> searchErrors[1]]
    ELSE [text |-> "No videos could be downloaded. Please check your Pexels API key.",
          notice |-> "none"]

\* searchAndDownloadVideos returns {paths, errors}; generateVideo throws or
\* goes on to the composition
CFootageCheck ==
    /\ run.pc = "returned"
    /\ lastJob' = [aborted |-> FootageAborts(run.downloadedPaths, run.errors),
                   message |-> IF FootageAborts(run.downloadedPaths, run.errors)
                               THEN FootageErrorMsg(run.errors)
                               ELSE [text |-> "none", notice |-> "none"],
                   paths |-> run.downloadedPaths, errors |-> run.errors,
                   queries |-> run.queries]
    /\ run' = RunIdle
    /\ UNCHANGED <<apiKey, library, sceneLog, fetches, requested, runs, tally>>
    /\ UNCHANGED <<dbVars, mergeVars, speechVars, jobVars, findVars, serverVars, composeVars>>

\* The cache is empty (a fresh deployment), or holds what an earlier job left
\* after its scene "sky" was resolved by downloading video 1 in step 3.
CascadeInit ==
    /\ JobIdle
    /\ FindIdle
    /\ ComposeIdle
    /\ ServerIdle
    /\ apiKey \in BOOLEAN
    /\ library \in LibraryInputs
    /\ run = RunIdle
    /\ sceneLog = <<>>
    /\ lastJob = NoJob
    /\ runs = 0
    /\ tally = NoTally
    /\ \/ /\ clips = <<>>
          /\ nextId = 1
          /\ cacheFiles = {}
          /\ fetches = [v \in ProviderIds |-> 0]
          /\ requested = [v \in ProviderIds |-> {}]
       \/ /\ clips = InitialClips
          /\ nextId = 2
          /\ cacheFiles = {1}
          /\ fetches = [v \in ProviderIds |-> IF v = 1 THEN 1 ELSE 0]
          /\ requested = [v \in ProviderIds |-> IF v = 1 THEN {sSky} ELSE {}]
    /\ mjob = [j \in MergeJobs |-> MIdle]
    /\ mlog = {}
    /\ mcalls = 0
    /\ SpeechIdle

CascadeNext ==
    \/ \E scenes \in SceneInputs, o \in Orientations : CStart(scenes, o)
    \/ \E ok \in BOOLEAN : CTier1(ok)
    \/ \E ok \in BOOLEAN : CTier2(ok)
    \/ \E result \in SearchResults : CSearch(result)
    \/ \E oc \in DownloadOutcomes : CDownload(oc)
    \/ \E ok \in BOOLEAN : CTier4(ok)
    \/ CFootageCheck

SpecCascade == CascadeInit /\ [][CascadeNext]_vars

\* the scenes of the current run that ended with a file
PathEntries == SelectSeq(sceneLog, LAMBDA e : e.end = "path")

\* C1: within one run no provider clip ID and no media-library item ID
\* resolves more than one scene, whichever tier resolved each scene.
C1_NoIdUsedTwice ==
    \A a, b \in 1..Len(PathEntries) :
        (/\ a # b
         /\ (PathEntries[a].kind = "library") = (PathEntries[b].kind = "library"))
        => PathEntries[a].id # PathEntries[b].id

\* a run whose first scene was resolved from the cache and whose second
\* scene was resolved by a download, after a search offered it clips
C1_Witness ==
    /\ run.pc = "returned"
    /\ Len(PathEntries) = 2
    /\ PathEntries[1].tier = 2
    /\ PathEntries[2].tier \in {3, 5}
    /\ PathEntries[1].id = 1 /\ PathEntries[2].id = 2

\* C2: for footage requests that select the same provider ID, the clip's file
\* is fetched from the provider exactly once, and the clip's stored terms are
\* the union of the lowercased search terms of those requests.
C2_FetchedOnceTermsUnion ==
    \A v \in ProviderIds :
        requested[v] # {} =>
            /\ fetches[v] = 1
            /\ TermsOf(clips, v) = requested[v]

\* C9: generateVideo aborts at the footage stage exactly when the cascade
\* resolved no scene; with at least one resolved scene it goes on whatever the
\* number of notices; the error thrown carries the first notice, if any.
C9_AbortsIffNoSceneResolved ==
    lastJob # NoJob =>
        /\ lastJob.aborted = (Len(PathEntries) = 0)
        /\ (lastJob.aborted /\ Len(lastJob.errors) > 0)
              => lastJob.message.notice = lastJob.errors[1]
        /\ ~lastJob.aborted => lastJob.message.notice = "none"

\* a job that went on to the composition with one resolved scene and one notice
C9_Witness ==
    /\ lastJob # NoJob
    /\ ~lastJob.aborted
    /\ Len(lastJob.errors) = 1
    /\ Len(lastJob.paths) = 1

\* C10: on return every scene is accounted for exactly once: paths plus
\* notices equal the queries, each scene gave one path or one notice naming
\* its query, and the paths are in scene order.
C10_EverySceneAccountedOnce ==
    run.pc = "returned" =>
        LET noticed == SelectSeq(sceneLog, LAMBDA e : e.end = "notice")
        IN /\ Len(run.downloadedPaths) + Len(run.errors) = Len(run.queries)
           /\ Len(sceneLog) = Len(run.queries)
           /\ \A i \in 1..Len(sceneLog) : sceneLog[i].scene = i
           /\ Len(run.downloadedPaths) = Len(PathEntries)
           /\ \A i \in 1..Len(PathEntries) :
                 /\ run.downloadedPaths[i].id = PathEntries[i].id
                 /\ run.downloadedPaths[i].kind = PathEntries[i].kind
           /\ Len(run.errors) = Len(noticed)
           /\ \A i \in 1..Len(noticed) :
                 run.errors[i].query = run.queries[noticed[i].scene]

\* a run of two scenes that returns one path and one notice, the notice for
\* the first scene
C10_Witness ==
    /\ run.pc = "returned"
    /\ Len(run.queries) = 2
    /\ Len(run.downloadedPaths) = 1
    /\ Len(run.errors) = 1
    /\ sceneLog[1].end = "notice"

----------------------------------------------------------------------------
(* SpecJob: concurrent generateVideo jobs (videoGenerator.ts).              *)
(*                                                                         *)
(* The jobs are callbacks of one event loop: a job's steps, between two    *)
(* awaits, are atomic with respect to the other job's steps.  The ffmpeg   *)
(* children of the per-clip transforms are operating system processes and  *)
(* run at any time, also while a synchronous fs.rmSync of the event loop   *)
(* is between unlinking the entries it has read and removing the           *)
(* directory.                                                              *)

Running(j) == gjob[j].pc \notin {"idle", "returned", "threw"}

\* fs.mkdirSync(dir, {recursive: true}): no error when the directory exists
MkdirRecursive(d) == [d EXCEPT !.exists = TRUE]

\* a write of the entries fs into a directory that exists
WriteFiles(d, fs) == [d EXCEPT !.files = @ \cup fs]

\* the catch block of generateVideo is entered from the stage that threw
Throw(g, stage) == [g EXCEPT !.pc = "catch", !.stage = stage]

\* the clock advances
Tick ==
    /\ now < MaxClock
    /\ now' = now + 1
    /\ UNCHANGED <<dirs, gjob, procs, rmBusy>>
    /\ UNCHANGED <<dbVars, mergeVars, speechVars, cascadeVars, findVars, serverVars, composeVars>>

\* generateVideo is called: ensureDirs, videoId from the clock, mkdir
JStart(j, speech) ==
    /\ rmBusy = 0
    /\ gjob[j].pc = "idle"
    /\ gjob' = [gjob EXCEPT ![j] =
                  [GIdle EXCEPT !.pc = IF speech THEN "voiceover" ELSE "footage",
                                !.workDir = now]]
    /\ dirs' = [dirs EXCEPT ![now] = MkdirRecursive(@)]
    /\ UNCHANGED <<now, procs, rmBusy>>
    /\ UNCHANGED <<dbVars, mergeVars, speechVars, cascadeVars, findVars, serverVars, composeVars>>

\* generateSpeech and getAudioDuration return or throw; a throw is caught
\* and the job goes on without a voiceover
JVoiceover(j, ok) ==
    /\ rmBusy = 0
    /\ gjob[j].pc = "voiceover"
    /\ LET d == gjob[j].workDir
           written == ok /\ dirs[d].exists
       IN /\ gjob' = [gjob EXCEPT ![j].pc = "footage",
                                  ![j].voiceoverPath = written]
          /\ dirs' = IF written
                       THEN [dirs EXCEPT ![d] = WriteFiles(@, {File("voiceover.mp3")})]
                       ELSE dirs
    /\ UNCHANGED <<now, procs, rmBusy>>
    /\ UNCHANGED <<dbVars, mergeVars, speechVars, cascadeVars, findVars, serverVars, composeVars>>

\* searchAndDownloadVideos returns n paths (it creates outputDir when it is
\* missing); the job throws when it returns none
JFootage(j, n) ==
    /\ rmBusy = 0
    /\ gjob[j].pc = "footage"
    /\ LET d == gjob[j].workDir
       IN /\ dirs' = [dirs EXCEPT ![d] =
                        WriteFiles(MkdirRecursive(@),
                                   {SourceFile(i) : i \in 0..(n - 1)})]
          /\ gjob' = [gjob EXCEPT ![j] =
                        IF n = 0 THEN Throw(@, "footage")
                                 ELSE [@ EXCEPT !.pc = "music", !.nclips = n]]
    /\ UNCHANGED <<now, procs, rmBusy>>
    /\ UNCHANGED <<dbVars, mergeVars, speechVars, cascadeVars, findVars, serverVars, composeVars>>

\* getBackgroundMusic returns (its errors are caught); processClip starts one
\* ffmpeg process per clip and the job awaits Promise.all
JMusic(j) ==
    /\ rmBusy = 0
    /\ gjob[j].pc = "music"
    /\ gjob' = [gjob EXCEPT ![j].pc = "transforms"]
    /\ procs' = [procs EXCEPT ![j] =
                   [i \in ClipIndexes |->
                      IF i < gjob[j].nclips THEN "spawned" ELSE "none"]]
    /\ UNCHANGED <<now, dirs, rmBusy>>
    /\ UNCHANGED <<dbVars, mergeVars, speechVars, cascadeVars, findVars, serverVars, composeVars>>

\* an ffmpeg process opens its output file clip_<i>.mp4 in the workspace
POpen(j, i) ==
    /\ procs[j][i] = "spawned"
    /\ LET d == gjob[j].workDir
       IN IF dirs[d].exists
            THEN /\ dirs' = [dirs EXCEPT ![d] = WriteFiles(@, {ClipFile(i)})]
                 /\ procs' = [procs EXCEPT ![j][i] = "writing"]
            ELSE /\ procs' = [procs EXCEPT ![j][i] = "failed"]
                 /\ UNCHANGED dirs
    /\ UNCHANGED <<now, gjob, rmBusy>>
    /\ UNCHANGED <<dbVars, mergeVars, speechVars, cascadeVars, findVars, serverVars, composeVars>>

\* an ffmpeg process ends: "end" resolves its promise
PDone(j, i) ==
    /\ procs[j][i] = "writing"
    /\ procs' = [procs EXCEPT ![j][i] = "done"]
    /\ UNCHANGED <<now, dirs, gjob, rmBusy>>
    /\ UNCHANGED <<dbVars, mergeVars, speechVars, cascadeVars, findVars, serverVars, composeVars>>

\* an ffmpeg process fails: "error" rejects its promise
PFail(j, i) ==
    /\ procs[j][i] \in {"spawned", "writing"}
    /\ procs' = [procs EXCEPT ![j][i] = "failed"]
    /\ UNCHANGED <<now, dirs, gjob, rmBusy>>
    /\ UNCHANGED <<dbVars, mergeVars, speechVars, cascadeVars, findVars, serverVars, composeVars>>

\* Promise.all settles: rejected by the first failed transform, whatever the
\* other processes are doing, or fulfilled when every transform has ended
JJoin(j) ==
    /\ rmBusy = 0
    /\ gjob[j].pc = "transforms"
    /\ LET mine == {i \in ClipIndexes : i < gjob[j].nclips}
       IN \/ /\ \E i \in mine : procs[j][i] = "failed"
             /\ gjob' = [gjob EXCEPT ![j] = Throw(@, "transform")]
          \/ /\ \A i \in mine : procs[j][i] = "done"
             /\ gjob' = [gjob EXCEPT ![j].pc = "concat"]
    /\ UNCHANGED <<now, dirs, procs, rmBusy>>
    /\ UNCHANGED <<dbVars, mergeVars, speechVars, cascadeVars, findVars, serverVars, composeVars>>

\* an awaited ffmpeg stage of job j: it succeeds only if the workspace and
\* the files it reads are still there; what the job writes before it starts
\* the process (partial) is written whenever the workspace exists
StageStep(j, stage, needs, partial, writes, next, ok) ==
    LET d == gjob[j].workDir
        success == ok /\ dirs[d].exists /\ needs \subseteq dirs[d].files
    IN /\ gjob' = [gjob EXCEPT ![j] =
                     IF success THEN [@ EXCEPT !.pc = next] ELSE Throw(@, stage)]
       /\ dirs' = IF success
                    THEN [dirs EXCEPT ![d] = WriteFiles(@, partial \cup writes)]
                    ELSE IF dirs[d].exists
                           THEN [dirs EXCEPT ![d] = WriteFiles(@, partial)]
                           ELSE dirs

\* concat.txt is written and concatenateVideos returns or throws
JConcat(j, ok) ==
    /\ rmBusy = 0
    /\ gjob[j].pc = "concat"
    /\ StageStep(j, "concat",
                 {ClipFile(i) : i \in 0..(gjob[j].nclips - 1)},
                 {File("concat.txt")}, {File("merged.mp4")}, "render", ok)
    /\ UNCHANGED <<now, procs, rmBusy>>
    /\ UNCHANGED <<dbVars, mergeVars, speechVars, cascadeVars, findVars, serverVars, composeVars>>

\* the subtitles are written and applyCombinedEffects returns or throws
JRender(j, ok) ==
    /\ rmBusy = 0
    /\ gjob[j].pc = "render"
    /\ StageStep(j, "render", {File("merged.mp4")},
                 {File("subtitles.ass")}, {File("rendered.mp4")},
                 IF gjob[j].voiceoverPath THEN "extend" ELSE "mix", ok)
    /\ UNCHANGED <<now, procs, rmBusy>>
    /\ UNCHANGED <<dbVars, mergeVars, speechVars, cascadeVars, findVars, serverVars, composeVars>>

\* with a voiceover: getVideoDuration, and extendVideo when the rendered
\* video is shorter than the narration
JExtend(j, needed, ok) ==
    /\ rmBusy = 0
    /\ gjob[j].pc = "extend"
    /\ StageStep(j, "extension", {File("rendered.mp4")}, {},
                 IF needed THEN {File("extended.mp4")} ELSE {}, "mix", ok)
    /\ UNCHANGED <<now, procs, rmBusy>>
    /\ UNCHANGED <<dbVars, mergeVars, speechVars, cascadeVars, findVars, serverVars, composeVars>>

\* mixAudio writes the artifact under public/videos, or throws
JMix(j, ok) ==
    /\ rmBusy = 0
    /\ gjob[j].pc = "mix"
    /\ StageStep(j, "mix", {File("rendered.mp4")}, {}, {}, "rm176", ok)
    /\ UNCHANGED <<now, procs, rmBusy>>
    /\ UNCHANGED <<dbVars, mergeVars, speechVars, cascadeVars, findVars, serverVars, composeVars>>

\* fs.rmSync(workDir, {recursive, force}) begins, after the audio mix or in
\* the catch block when the workspace exists: the entries it finds are
\* unlinked.  The event loop is blocked until rmSync returns.
JRmSync(j) ==
    /\ rmBusy = 0
    /\ \/ gjob[j].pc = "rm176"
       \/ gjob[j].pc = "catch" /\ dirs[gjob[j].workDir].exists
    /\ gjob' = [gjob EXCEPT ![j].pc =
                  IF gjob[j].pc = "rm176" THEN "rmdir176" ELSE "rmdir183"]
    /\ dirs' = [dirs EXCEPT ![gjob[j].workDir].files = {}]
    /\ rmBusy' = j
    /\ UNCHANGED <<now, procs>>
    /\ UNCHANGED <<dbVars, mergeVars, speechVars, cascadeVars, findVars, serverVars, composeVars>>

\* the catch block finds no workspace and rethrows
JCatchGone(j) ==
    /\ rmBusy = 0
    /\ gjob[j].pc = "catch"
    /\ ~dirs[gjob[j].workDir].exists
    /\ gjob' = [gjob EXCEPT ![j].pc = "threw", ![j].left = FALSE]
    /\ UNCHANGED <<now, dirs, procs, rmBusy>>
    /\ UNCHANGED <<dbVars, mergeVars, speechVars, cascadeVars, findVars, serverVars, composeVars>>

\* fs.rmSync ends with the rmdir of the workspace: it fails with ENOTEMPTY
\* (maxRetries is 0) when an entry was created since the entries were
\* unlinked.  After line 176 the error is caught by the catch block; in the
\* catch block it replaces the job's error and the job ends.
JRmdir(j) ==
    /\ rmBusy = j
    /\ LET d == gjob[j].workDir
           empty == dirs[d].files = {}
       IN /\ dirs' = IF empty THEN [dirs EXCEPT ![d] = NoDir] ELSE dirs
          /\ gjob' = [gjob EXCEPT ![j] =
                IF gjob[j].pc = "rmdir176"
                  THEN IF empty THEN [@ EXCEPT !.pc = "returned", !.left = FALSE]
                                ELSE Throw(@, "cleanup")
                  ELSE [@ EXCEPT !.pc = "threw", !.left = ~empty]]
    /\ rmBusy' = 0
    /\ UNCHANGED <<now, procs>>
    /\ UNCHANGED <<dbVars, mergeVars, speechVars, cascadeVars, findVars, serverVars, composeVars>>

JobInit ==
    /\ JobIdle
    /\ FindIdle
    /\ ComposeIdle
    /\ ServerIdle
    /\ SpeechIdle
    /\ CascadeIdle
    /\ clips = <<>>
    /\ nextId = 1
    /\ cacheFiles = {}
    /\ mjob = [j \in MergeJobs |-> MIdle]
    /\ mlog = {}
    /\ mcalls = 0

JobNext ==
    \/ Tick
    \/ \E j \in GenJobs, speech \in BOOLEAN : JStart(j, speech)
    \/ \E j \in GenJobs, ok \in BOOLEAN : JVoiceover(j, ok)
    \/ \E j \in GenJobs, n \in 0..MaxClips : JFootage(j, n)
    \/ \E j \in GenJobs : JMusic(j)
    \/ \E j \in GenJobs, i \in ClipIndexes : POpen(j, i)
    \/ \E j \in GenJobs, i \in ClipIndexes : PDone(j, i)
    \/ \E j \in GenJobs, i \in ClipIndexes : PFail(j, i)
    \/ \E j \in GenJobs : JJoin(j)
    \/ \E j \in GenJobs, ok \in BOOLEAN : JConcat(j, ok)
    \/ \E j \in GenJobs, ok \in BOOLEAN : JRender(j, ok)
    \/ \E j \in GenJobs, needed \in BOOLEAN, ok \in BOOLEAN : JExtend(j, needed, ok)
    \/ \E j \in GenJobs, ok \in BOOLEAN : JMix(j, ok)
    \/ \E j \in GenJobs : JRmSync(j)
    \/ \E j \in GenJobs : JCatchGone(j)
    \/ \E j \in GenJobs : JRmdir(j)

SpecJob == JobInit /\ [][JobNext]_vars

\* C7: whenever generateVideo has ended after creating its workspace, by
\* returning the artifact path or by throwing at any stage, the workspace
\* directory did not exist any more when it ended, also when one parallel
\* transform failed while the others were still running.
C7_WorkspaceGoneAtEnd ==
    \A j \in GenJobs :
        gjob[j].pc \in {"returned", "threw"} => ~gjob[j].left

\* C8: any two jobs running at the same time have distinct workspace
\* directories (so that the cleanup of one cannot remove or empty the
\* workspace of the other).
C8_RunningJobsDistinctWorkspaces ==
    \A j, k \in GenJobs :
        (j # k /\ Running(j) /\ Running(k)) => gjob[j].workDir # gjob[k].workDir

----------------------------------------------------------------------------
(* Calls of findCachedClips on a clip table (SpecFind) *)

\* the largest limit a call passes
MaxLimit == 3

\* the rows of the table, in insertion order (id is serial)
FindRows ==
    << [id |-> 1, pexelsId |-> 1, filePath |-> 1,
        searchTerms |-> {sSky}, orientation |-> "landscape"],
       [id |-> 2, pexelsId |-> 2, filePath |-> 2,
        searchTerms |-> {sSea}, orientation |-> "landscape"],
       [id |-> 3, pexelsId |-> 3, filePath |-> 3,
        searchTerms |-> {sSky, sSkySea}, orientation |-> "landscape"],
       [id |-> 4, pexelsId |-> 4, filePath |-> 4,
        searchTerms |-> {sSky}, orientation |-> "portrait"] >>

FindTables == {<<>>, SubSeq(FindRows, 1, 2), FindRows}

FindTerms == {sEmpty, sBlank, sAOn, sSky, sSkyCap, sSkySea, sSkySky}

\* The orders in which a select without ORDER BY can return the rows of the
\* table: the store keeps no order, and an updated row (saveCachedClip,
\* addSearchTermToClip) is written as a new version after the rows that were
\* inserted later.
StoreOrders(db) ==
    LET n == Len(db)
        perms == {p \in [1..n -> 1..n] : \A i, j \in 1..n : p[i] = p[j] => i = j}
    IN {[i \in 1..n |-> db[p[i]]] : p \in perms}

\* findCachedClips(searchTerm, orientation, limit) on the table as the store
\* returns it; storageOk: whether the select resolves or rejects
FFind(searchTerm, orientation, limit, rows, storageOk) ==
    LET searchWords == SearchWords(searchTerm)
        reads == ReadsStore(searchWords)
        threw == reads /\ ~storageOk
        fetched == IF reads /\ storageOk THEN FetchClips(rows, orientation) ELSE <<>>
    IN /\ fcall' = [called |-> TRUE,
                    searchTerm |-> searchTerm,
                    orientation |-> orientation,
                    limit |-> limit,
                    reads |-> IF reads THEN 1 ELSE 0,
                    threw |-> threw,
                    fetched |-> fetched,
                    scored |-> ScoredClips(fetched, searchWords),
                    result |-> IF threw THEN <<>>
                               ELSE FindCachedClips(rows, searchTerm, orientation, limit)]
       /\ UNCHANGED <<dbVars, mergeVars, speechVars, cascadeVars, jobVars, serverVars,
                      composeVars>>

FindInit ==
    /\ FindIdle
    /\ ComposeIdle
    /\ ServerIdle
    /\ JobIdle
    /\ SpeechIdle
    /\ CascadeIdle
    /\ clips \in FindTables
    /\ nextId = Len(clips) + 1
    /\ cacheFiles = {clips[i].filePath : i \in 1..Len(clips)}
    /\ mjob = [j \in MergeJobs |-> MIdle]
    /\ mlog = {}
    /\ mcalls = 0

FindNext ==
    \E searchTerm \in FindTerms, orientation \in Orientations, limit \in 1..MaxLimit,
       rows \in StoreOrders(clips), storageOk \in BOOLEAN :
        FFind(searchTerm, orientation, limit, rows, storageOk)

SpecFind == FindInit /\ [][FindNext]_vars

(* Claims about findCachedClips (SpecFind) *)

\* the search term has no token longer than 2 characters: every 3
\* consecutive characters of it include white space
NoLongToken(searchTerm) ==
    \A i \in 1..Len(searchTerm) - 2 : \E j \in i..i + 2 : IsSpace(searchTerm[j])

\* C17: a call of findCachedClips whose search term has no token longer than
\* 2 characters returns the empty list, does not throw, and does not read
\* the store (even when the store is unreachable).
C17_NoTokensEmptyNoRead ==
    (fcall.called /\ NoLongToken(fcall.searchTerm)) =>
        /\ fcall.result = <<>>
        /\ ~fcall.threw
        /\ fcall.reads = 0

\* a call with a search term of short words only, on a table that has rows
\* of the requested orientation
C17_Witness ==
    /\ fcall.called
    /\ fcall.searchTerm = sAOn
    /\ \E i \in 1..Len(clips) : clips[i].orientation = fcall.orientation
    /\ fcall.result = <<>> /\ fcall.reads = 0

\* C19: the score findCachedClips gives a fetched clip is the number of
\* search words for which some stored term of the clip contains the word or
\* is contained in it; a word counts once however many terms match it, so
\* the score lies between 0 and the number of search words.
C19_ScoreCountsMatchedTokens ==
    fcall.called =>
        \A i \in 1..Len(fcall.scored) :
            LET words == SearchWords(fcall.searchTerm)
                terms == fcall.scored[i].clip.searchTerms
                matched == {k \in 1..Len(words) :
                               \E term \in terms : Includes(term, words[k])
                                                    \/ Includes(words[k], term)}
            IN /\ fcall.scored[i].score = Cardinality(matched)
               /\ fcall.scored[i].score >= 0
               /\ fcall.scored[i].score <= Len(words)

\* a call with the search word "sky" that scored a clip with two stored
\* terms that match the word, next to a clip without a matching term
C19_Witness ==
    /\ fcall.called
    /\ fcall.searchTerm = sSky
    /\ \E i, j \in 1..Len(fcall.scored) :
          /\ fcall.scored[i].clip.searchTerms = {sSky, sSkySea}
          /\ fcall.scored[i].score = 1
          /\ fcall.scored[j].score = 0

\* the score the last call gave the fetched clip with this id
ScoreOfFetched(id) ==
    LET i == CHOOSE k \in 1..Len(fcall.scored) : fcall.scored[k].clip.id = id
    IN fcall.scored[i].score

\* the result of the last call: at most the limit, of the requested
\* orientation, each with a score of at least 1, by non-increasing score, and
\* no fetched clip that was left out scores higher than a returned one
RankedWithinLimit ==
    LET res == fcall.result
    IN /\ Len(res) <= fcall.limit
       /\ \A i \in 1..Len(res) :
             /\ res[i].orientation = fcall.orientation
             /\ \E k \in 1..Len(fcall.fetched) : fcall.fetched[k] = res[i]
             /\ ScoreOfFetched(res[i].id) >= 1
       /\ \A i, j \in 1..Len(res) :
             i < j => ScoreOfFetched(res[i].id) >= ScoreOfFetched(res[j].id)
       /\ \A k \in 1..Len(fcall.fetched) :
             (\A i \in 1..Len(res) : res[i] # fcall.fetched[k]) =>
                 \A i \in 1..Len(res) :
                     ScoreOfFetched(fcall.fetched[k].id) <= ScoreOfFetched(res[i].id)

\* C20: findCachedClips returns at most N clips, every one of the requested
\* orientation and with a score of at least 1, ordered by non-increasing
\* score, clips of equal score in insertion order (the serial id); no clip
\* left out for the limit scores higher than a returned clip.
C20_RankedLimitedInsertionOrder ==
    (fcall.called /\ ~fcall.threw) =>
        /\ RankedWithinLimit
        /\ \A i, j \in 1..Len(fcall.result) :
              (i < j /\ ScoreOfFetched(fcall.result[i].id)
                          = ScoreOfFetched(fcall.result[j].id))
                  => fcall.result[i].id < fcall.result[j].id

(* generateASSSubtitles (subtitles.ts).  totalDuration is in tenths of a    *)
(* second and the duration given to the words in 1/200 s, so that 0.95 x   *)
(* totalDuration and 0.4 s x words are whole numbers.  A word's share      *)
(* (word.length / totalChars) x duration is a fraction: the times of a     *)
(* track are whole numbers of 1/(200 x totalChars) s, and the track        *)
(* carries totalChars as its unit.                                         *)

\* String.prototype.toUpperCase on one character of the model's alphabet
UpperChar(c) ==
    CASE c = "s" -> "S"
      [] c = "k" -> "K"
      [] c = "y" -> "Y"
      [] c = "e" -> "E"
      [] c = "a" -> "A"
      [] c = "o" -> "O"
      [] c = "n" -> "N"
      [] OTHER -> c

ToUpper(s) == [i \in 1..Len(s) |-> UpperChar(s[i])]

\* escapeASSText: a backslash before every backslash and brace
RECURSIVE EscapeASSText(_)
EscapeASSText(text) ==
    IF text = <<>> THEN <<>>
    ELSE (IF Head(text) \in {"\\", "{", "}"} THEN <<"\\", Head(text)>> ELSE <<Head(text)>>)
         \o EscapeASSText(Tail(text))

\* text.split(/\s+/).filter(w => w.length > 0)
WordsOf(text) == SelectSeq(SplitWs(text), LAMBDA w : Len(w) > 0)

\* words.reduce((sum, w) => sum + w.length, 0)
RECURSIVE TotalChars(_)
TotalChars(words) ==
    IF words = <<>> THEN 0 ELSE Len(Head(words)) + TotalChars(Tail(words))

\* estimateWordTimings: the loop.  A word lasts word.length x duration units
\* and the next word starts at the sum that was the end of this one.
RECURSIVE WordTimingsFrom(_, _, _)
WordTimingsFrom(words, currentTime, duration) ==
    IF words = <<>> THEN <<>>
    ELSE LET wordDuration == Len(Head(words)) * duration
         IN <<[word |-> Head(words),
               start |-> currentTime,
               end |-> currentTime + wordDuration]>>
            \o WordTimingsFrom(Tail(words), currentTime + wordDuration, duration)

\* estimateWordTimings(text, startTime, duration)
EstimateWordTimings(text, startTime, duration) ==
    LET words == WordsOf(text)
    IN IF words = <<>> THEN <<>>
       ELSE WordTimingsFrom(words, startTime * TotalChars(words), duration)

\* generateASSSubtitles: textToUse
RECURSIVE SceneTexts(_)
SceneTexts(scenes) ==
    IF scenes = <<>> THEN <<>> ELSE <<Head(scenes).text>> \o SceneTexts(Tail(scenes))

RECURSIVE JoinWith(_, _)
JoinWith(pieces, sep) ==
    IF pieces = <<>> THEN <<>>
    ELSE IF Len(pieces) = 1 THEN pieces[1]
         ELSE pieces[1] \o sep \o JoinWith(Tail(pieces), sep)

TextToUse(script, scenes) ==
    IF Len(Trim(script)) > 0 THEN script ELSE JoinWith(SceneTexts(scenes), <<" ">>)

\* estimatedSpeechDuration alone: 60 / 150 = 0.4 s for every word
EstimatedSpeechDuration(totalDuration, nwords) == nwords * 80

\* actualDuration = Math.min(totalDuration * 0.95, estimatedSpeechDuration)
SpeechDuration(totalDuration, nwords) ==
    MathMin(totalDuration * 19, nwords * 80)

\* Math.round((wt.end - wt.start) * 100): centiseconds from the track's units
WordDurationCs(wt, unit) == ((wt.end - wt.start) + unit) \div (2 * unit)

\* one Dialogue line: lineStart, lineEnd (0.2 s after its last word) and the
\* words, each with its reveal duration
CaptionLine(lineWords, unit) ==
    [start |-> lineWords[1].start,
     end |-> lineWords[Len(lineWords)].end + 40 * unit,
     text |-> [j \in 1..Len(lineWords) |->
                 [k |-> WordDurationCs(lineWords[j], unit),
                  word |-> EscapeASSText(ToUpper(lineWords[j].word))]]]

\* the loop over wordTimings in steps of wordsPerLine
RECURSIVE CaptionLines(_, _, _)
CaptionLines(wordTimings, wordsPerLine, unit) ==
    IF wordTimings = <<>> THEN <<>>
    ELSE <<CaptionLine(Slice(wordTimings, wordsPerLine), unit)>>
         \o CaptionLines(SubSeq(wordTimings, wordsPerLine + 1, Len(wordTimings)),
                         wordsPerLine, unit)

\* the values of the header that the orientation sets
Header(orientation) ==
    LET isPortrait == orientation = "portrait"
    IN [fontSize |-> 36,
        marginV |-> IF isPortrait THEN 180 ELSE 80,
        playResX |-> IF isPortrait THEN 720 ELSE 1280,
        playResY |-> IF isPortrait THEN 1280 ELSE 720]

\* the track with wordsPerLine words a line
SubtitleTrack(script, scenes, totalDuration, orientation, wordsPerLine) ==
    LET textToUse == TextToUse(script, scenes)
        words == WordsOf(textToUse)
        unit == TotalChars(words)
        actualDuration == SpeechDuration(totalDuration, Len(words))
        wordTimings == EstimateWordTimings(textToUse, 0, actualDuration)
    IN IF Len(Trim(textToUse)) = 0 \/ words = <<>>
         THEN [header |-> Header(orientation), unit |-> 1, wordTimings |-> <<>>,
               events |-> <<>>]
         ELSE [header |-> Header(orientation), unit |-> unit,
               wordTimings |-> wordTimings,
               events |-> CaptionLines(wordTimings, wordsPerLine, unit)]

\* generateASSSubtitles with a line of 4 words on the wider canvas
GenerateASSSubtitlesWide(script, scenes, totalDuration, orientation) ==
    SubtitleTrack(script, scenes, totalDuration, orientation,
                  IF orientation = "portrait" THEN 3 ELSE 4)

\* generateASSSubtitles: wordsPerLine = 3
GenerateASSSubtitles(script, scenes, totalDuration, orientation) ==
    SubtitleTrack(script, scenes, totalDuration, orientation, 3)

(* mixAudio (videoGenerator.ts).  Times are in tenths of a second, volumes in *)
(* hundredths.  A path is "null", or names a file that is "missing" or      *)
(* "present".                                                               *)

Tracks == {"null", "missing", "present"}

\* the requested volumes: below 0, 0, the default 0.02, 0.5, 1, above 1
Volumes == {-50, 0, 2, 50, 100, 150}

\* the target durations of a mix: shorter and longer than the fade
Targets == {0, 10, 20, 30, 50}

\* fs.existsSync(path)
ExistsSync(path) == path = "present"

\* hasVoice, hasMusic without the fs.existsSync test
HasTrackPathOnly(path) == path # "null"

\* mixAudio: hasVoice, hasMusic (path && fs.existsSync(path))
HasTrack(path) == path # "null" /\ ExistsSync(path)

\* safeVolume without the lower limit
SafeVolumeMinOnly(musicVolume) == MathMin(100, musicVolume)

\* mixAudio: safeVolume = Math.max(0, Math.min(1, musicVolume))
SafeVolume(musicVolume) == MathMax(0, MathMin(100, musicVolume))

\* mixAudio: fadeStart = Math.max(0, targetDuration - 2)
FadeStart(targetDuration) == MathMax(0, targetDuration - 20)

\* an audio input of the ffmpeg command
AudioInput(track, path) == [track |-> track, path |-> path]

\* mixAudio: the ffmpeg command it runs.  inputs: the audio inputs after
\* the video; volume, fade: the music filter ("none" without music); the last
\* alternative is the function falling through its if chain without running
\* a command, so that its promise never settles
MixAudio(voiceoverPath, musicPath, targetDuration, musicVolume) ==
    LET hasVoice == HasTrack(voiceoverPath)
        hasMusic == HasTrack(musicPath)
        safeVolume == SafeVolume(musicVolume)
    IN IF ~hasVoice /\ ~hasMusic
         THEN [branch |-> "copy", inputs |-> <<>>, volume |-> <<>>, fade |-> <<>>]
       ELSE IF hasVoice /\ hasMusic
         THEN [branch |-> "both", inputs |-> <<AudioInput("voice", voiceoverPath),
                            AudioInput("music", musicPath)>>,
               volume |-> <<safeVolume>>,
               fade |-> <<FadeStart(targetDuration), 20>>]
       ELSE IF hasVoice
         THEN [branch |-> "voice", inputs |-> <<AudioInput("voice", voiceoverPath)>>,
               volume |-> <<>>, fade |-> <<>>]
       ELSE IF hasMusic
         THEN [branch |-> "music", inputs |-> <<AudioInput("music", musicPath)>>,
               volume |-> <<safeVolume>>,
               fade |-> <<FadeStart(targetDuration), 20>>]
       ELSE [branch |-> "none", inputs |-> <<>>, volume |-> <<>>, fade |-> <<>>]

----------------------------------------------------------------------------
(* SpecMix: calls of mixAudio *)

\* mixAudio(videoPath, voiceoverPath, musicPath, outputPath, targetDuration,
\* musicVolume); ok: whether the ffmpeg command ends or fails
MixCall(voiceoverPath, musicPath, targetDuration, musicVolume, ok) ==
    LET cmd == MixAudio(voiceoverPath, musicPath, targetDuration, musicVolume)
    IN /\ mix' = [called |-> TRUE,
                  voiceoverPath |-> voiceoverPath,
                  musicPath |-> musicPath,
                  targetDuration |-> targetDuration,
                  musicVolume |-> musicVolume,
                  cmd |-> cmd,
                  settled |-> IF cmd.branch = "none" THEN "pending"
                              ELSE IF ok THEN "resolved" ELSE "rejected"]
       /\ UNCHANGED <<pjob, musicDir, ass>>
       /\ UNCHANGED <<dbVars, mergeVars, speechVars, cascadeVars, jobVars, findVars, serverVars>>

\* the stores and the other programs at rest
StoresIdle ==
    /\ ServerIdle
    /\ JobIdle
    /\ FindIdle
    /\ SpeechIdle
    /\ CascadeIdle
    /\ clips = <<>>
    /\ nextId = 1
    /\ cacheFiles = {}
    /\ mjob = [j \in MergeJobs |-> MIdle]
    /\ mlog = {}
    /\ mcalls = 0

MixInit ==
    /\ StoresIdle
    /\ ComposeIdle

MixNext ==
    \E voiceoverPath \in Tracks, musicPath \in Tracks, targetDuration \in Targets,
       musicVolume \in Volumes, ok \in BOOLEAN :
        MixCall(voiceoverPath, musicPath, targetDuration, musicVolume, ok)

SpecMix == MixInit /\ [][MixNext]_vars

(* Claims about mixAudio (SpecMix) *)

\* C29: mixAudio runs exactly one of four mixes, chosen by which of the
\* voiceover and music files exist: both -> voice and music, the music faded
\* out over the 2 s before the target duration; voice only -> the voice;
\* music only -> the music with the same fade; neither -> the video without
\* audio.  A track whose path is null or whose file is missing is no input
\* of the mix, and the call resolves or rejects.
C29_OneOfFourMixes ==
    mix.called =>
        LET voice == mix.voiceoverPath = "present"
            music == mix.musicPath = "present"
            cmd == mix.cmd
        IN /\ cmd.branch = (IF voice /\ music THEN "both"
                             ELSE IF voice THEN "voice"
                             ELSE IF music THEN "music" ELSE "copy")
           /\ \A i \in 1..Len(cmd.inputs) : cmd.inputs[i].path = "present"
           /\ {cmd.inputs[i].track : i \in 1..Len(cmd.inputs)}
                 = {t \in {"voice", "music"} : IF t = "voice" THEN voice ELSE music}
           /\ Len(cmd.inputs) = Cardinality({t \in {"voice", "music"} :
                                                IF t = "voice" THEN voice ELSE music})
           /\ cmd.fade = (IF music
                            THEN <<(IF mix.targetDuration >= 20
                                      THEN mix.targetDuration - 20 ELSE 0), 20>>
                            ELSE <<>>)
           /\ mix.settled \in {"resolved", "rejected"}

\* a mix with a voiceover whose file is missing and a music file that is
\* there: the music-only mix, which failed
C29_Witness ==
    /\ mix.called
    /\ mix.voiceoverPath = "missing" /\ mix.musicPath = "present"
    /\ mix.cmd.branch = "music"
    /\ mix.settled = "rejected"

\* C30: the music volume of the mix is within [0, 1]: 0 for a requested
\* volume below 0, 1 for one above 1, the requested volume otherwise, in
\* both mixes that include music.
C30_VolumeClamped ==
    (mix.called /\ mix.cmd.branch \in {"both", "music"}) =>
        LET v == mix.musicVolume
        IN /\ mix.cmd.volume = <<(IF v < 0 THEN 0 ELSE IF v > 100 THEN 100 ELSE v)>>
           /\ mix.cmd.volume[1] >= 0 /\ mix.cmd.volume[1] <= 100

\* a mix of voice and music requested with a volume below 0
C30_Witness ==
    /\ mix.called
    /\ mix.cmd.branch = "both"
    /\ mix.musicVolume < 0
    /\ mix.cmd.volume = <<0>>

----------------------------------------------------------------------------
(* SpecSubs: calls of generateASSSubtitles *)

\* narration texts: none, white space, one word, two words, four words with
\* a double space, five words with a leading space and braces
SubsScripts == {sEmpty, sBlank, sSky, sSkySea, sASkyOnSea, sSeaSkyOnASky}

\* scene lists: none, one scene without caption, three scenes of which one
\* has no caption
SubsScenes ==
    {<<>>, <<[text |-> sEmpty]>>,
     <<[text |-> sSkySea], [text |-> sEmpty], [text |-> sAOn]>>}

\* total durations in tenths of a second, from 0 to a minute
SubsDurations == {0, 5, 10, 30, 100, 600}

SubsCall(script, scenes, totalDuration, orientation) ==
    /\ ass' = [called |-> TRUE,
               script |-> script,
               scenes |-> scenes,
               totalDuration |-> totalDuration,
               orientation |-> orientation,
               track |-> GenerateASSSubtitles(script, scenes, totalDuration, orientation)]
    /\ UNCHANGED <<pjob, musicDir, mix>>
    /\ UNCHANGED <<dbVars, mergeVars, speechVars, cascadeVars, jobVars, findVars, serverVars>>

SubsInit ==
    /\ StoresIdle
    /\ ComposeIdle

SubsNext ==
    \E script \in SubsScripts, scenes \in SubsScenes,
       totalDuration \in SubsDurations, orientation \in Orientations :
        SubsCall(script, scenes, totalDuration, orientation)

SpecSubs == SubsInit /\ [][SubsNext]_vars

(* Claims about generateASSSubtitles (SpecSubs) *)

\* C23: the time given to all the words together is the smaller of 0.95 x
\* totalDuration and 0.4 s x the number of words, so it is at most 0.95 x
\* totalDuration; the first word starts at 0, every word starts where the
\* word before it ends, and no word ends before it starts.
C23_WordTimingsWithinCap ==
    (ass.called /\ ass.track.wordTimings # <<>>) =>
        LET wt == ass.track.wordTimings
            n == Len(wt)
            unit == ass.track.unit
            cap == 19 * ass.totalDuration
            estimate == 80 * n
        IN /\ wt[n].end - wt[1].start
                 = unit * (IF cap <= estimate THEN cap ELSE estimate)
           /\ wt[n].end <= unit * cap
           /\ wt[1].start = 0
           /\ \A k \in 1..(n - 1) : wt[k + 1].start = wt[k].end
           /\ \A k \in 1..n : wt[k].end >= wt[k].start

\* a narration of five words in two lines whose estimate of 2 s is cut to
\* 0.95 s by a total duration of 1 s
C23_Witness ==
    /\ ass.called
    /\ ass.totalDuration = 10
    /\ Len(ass.track.wordTimings) = 5
    /\ Len(ass.track.events) = 2
    /\ ass.track.wordTimings[5].end = 190 * ass.track.unit
    /\ ass.track.wordTimings[2].start > 0

\* the other orientation
OtherOrientation(orientation) ==
    IF orientation = "portrait" THEN "landscape" ELSE "portrait"

\* C24: for every narration, scene list and total duration the track has the
\* same word timings and the same caption events (start, end, words and
\* reveal durations) for landscape and for portrait; of the header only the
\* canvas size and the margin differ.
C24_OrientationKeepsTiming ==
    ass.called =>
        LET other == GenerateASSSubtitles(ass.script, ass.scenes, ass.totalDuration,
                                          OtherOrientation(ass.orientation))
        IN /\ other.events = ass.track.events
           /\ other.wordTimings = ass.track.wordTimings
           /\ other.unit = ass.track.unit
           /\ other.header.fontSize = ass.track.header.fontSize
           /\ other.header.playResX = ass.track.header.playResY
           /\ other.header.playResY = ass.track.header.playResX
           /\ other.header.marginV # ass.track.header.marginV

\* a landscape call for captions of the scenes (no narration) with events in
\* two lines
C24_Witness ==
    /\ ass.called
    /\ ass.orientation = "landscape"
    /\ ass.script = sBlank
    /\ Len(ass.track.events) = 2
    /\ ass.track.events[2].start > ass.track.events[1].start

----------------------------------------------------------------------------
(* SpecPipe: one generateVideo job, one step per awaited call, with the     *)
(* values its stages pass on and the stages it reports.  Durations are in  *)
(* tenths of a second.  The files of the workspace are SpecJob's.          *)

\* the most queries the job hands to the cascade
MaxQueries == 3

\* options.duration: 4 s and 6 s
PipeDurations == {40, 60}

\* what getAudioDuration measures: 2 s, 5.5 s, 8 s
VoiceDurations == {20, 55, 80}

\* the length of the rendered video: 3.5 s, 5.4 s, 5.5 s, 6 s, 9 s
VideoDurations == {35, 54, 55, 60, 90}

\* options.musicMood: a key of MUSIC_TRACKS and another tag
Moods == {"epic", "calm"}

\* the length of the music track: 3 s, 90 s
MusicDurations == {30, 900}

\* a job that was just called
NewJob(opt) ==
    [pc |-> IF opt.includeSpeech /\ opt.script THEN "speech" ELSE "footage",
     options |-> opt,
     voiceoverPath |-> "null",
     voiceFile |-> FALSE,
     voiceDuration |-> 0,
     actualDuration |-> opt.duration,
     nclips |-> 0,
     musicPath |-> "null",
     musicBefore |-> musicDir,
     targets |-> <<>>,
     procs |-> <<>>,
     ended |-> <<>>,
     concatList |-> <<>>,
     renders |-> 0,
     videoDuration |-> 0,
     videoForMixing |-> "none",
     mixed |-> <<>>,
     artifact |-> <<>>,
     workspace |-> "present",
     progress |-> IF opt.includeSpeech /\ opt.script
                  THEN <<"voiceover">> ELSE <<"searching">>,
     log |-> <<>>]

\* the job's history: the calls that returned and the calls that threw
Did(job, event) == [job EXCEPT !.log = Append(@, event)]

\* onProgress(stage, message), once for each stage of the list
Say(job, stages) == [job EXCEPT !.progress = @ \o stages]

\* a throw outside the inner try blocks ends the job: the catch block
\* removes the workspace and throws the error again
PThrow(job, event) ==
    [Did(job, event) EXCEPT !.pc = "threw", !.workspace = "removed"]

\* generateVideo is called
PStart(opt) ==
    /\ pjob.pc = "idle"
    /\ pjob' = NewJob(opt)
    /\ UNCHANGED <<musicDir, ass, mix>>
    /\ UNCHANGED <<dbVars, mergeVars, speechVars, cascadeVars, jobVars, findVars, serverVars>>

\* the catch block of the voiceover step, without voiceoverPath = null
VoiceCatchKeepsPath(job, event) ==
    [Say(Did(job, event), <<"voiceover", "searching">>) EXCEPT !.pc = "footage"]

\* the catch block of the voiceover step
VoiceCatch(job, event) ==
    [Say(Did(job, event), <<"voiceover", "searching">>) EXCEPT
        !.pc = "footage", !.voiceoverPath = "null"]

\* voiceoverPath is set and generateSpeech returns (the file is written) or
\* throws
PSpeech(ok) ==
    /\ pjob.pc = "speech"
    /\ pjob' = IF ok
                THEN [Did(pjob, "speech") EXCEPT !.pc = "audioProbe",
                                                 !.voiceoverPath = "path",
                                                 !.voiceFile = TRUE]
                ELSE VoiceCatch([pjob EXCEPT !.voiceoverPath = "path"], "speech failed")
    /\ UNCHANGED <<musicDir, ass, mix>>
    /\ UNCHANGED <<dbVars, mergeVars, speechVars, cascadeVars, jobVars, findVars, serverVars>>

\* getAudioDuration returns the duration of the voiceover, or throws
PAudioProbe(ok, voiceDuration) ==
    /\ pjob.pc = "audioProbe"
    /\ pjob' = IF ok
                THEN [Say(Did(pjob, "audioProbe"), <<"voiceover", "searching">>) EXCEPT
                        !.pc = "footage",
                        !.voiceDuration = voiceDuration,
                        !.actualDuration = MathMax(pjob.options.duration,
                                                   voiceDuration + 10)]
                ELSE VoiceCatch(pjob, "audioProbe failed")
    /\ UNCHANGED <<musicDir, ass, mix>>
    /\ UNCHANGED <<dbVars, mergeVars, speechVars, cascadeVars, jobVars, findVars, serverVars>>

\* searchAndDownloadVideos returns n paths, in the order of the scenes; the
\* job throws when it returns none
PFootage(n) ==
    /\ pjob.pc = "footage"
    /\ n <= pjob.options.nscenes
    /\ pjob' = IF n = 0 THEN PThrow(pjob, "footage failed")
                ELSE [Say(Did(pjob, "footage"), <<"searching", "searching", "music">>)
                        EXCEPT !.pc = "music", !.nclips = n]
    /\ UNCHANGED <<musicDir, ass, mix>>
    /\ UNCHANGED <<dbVars, mergeVars, speechVars, cascadeVars, jobVars, findVars, serverVars>>

\* getBackgroundMusic: the write of the cache happens whatever the fetch did
MusicDirAfterAnyFetch(dir, mood, outcome) ==
    IF mood \in dir \/ outcome = "threw" THEN dir ELSE dir \cup {mood}

\* getBackgroundMusic: the music directory after the call.  The track is
\* written only after the fetch and the read of its body succeeded.
MusicDirAfter(dir, mood, outcome) ==
    IF mood \notin dir /\ outcome = "fetched" THEN dir \cup {mood} ELSE dir

\* getBackgroundMusic: the path it returns, as the file it names: the cached
\* track, or <mood>_fallback.mp3 in the workspace, which nobody writes
GetBackgroundMusic(dir, mood, outcome) ==
    IF mood \in dir THEN "present"
    ELSE IF outcome = "fetched" THEN "present" ELSE "missing"

\* targetDurationPerClip with the number of scenes for the number of clips
TargetPerScene(job) == [num |-> job.actualDuration, den |-> job.options.nscenes]

\* targetDurationPerClip = actualDuration / videoPaths.length, as a fraction
TargetDurationPerClip(job) == [num |-> job.actualDuration, den |-> job.nclips]

\* getBackgroundMusic returns or throws ("threw": mkdirSync fails), the
\* job keeps the path only if its file exists; then one processClip per
\* path is started, each with targetDurationPerClip
PMusic(outcome) ==
    /\ pjob.pc = "music"
    /\ LET mood == pjob.options.musicMood
           path == IF outcome = "threw" THEN "null"
                   ELSE GetBackgroundMusic(musicDir, mood, outcome)
           job == Say(Did(pjob, IF outcome = "threw" THEN "music threw"
                                ELSE IF mood \in musicDir THEN "music cached"
                                ELSE IF outcome = "fetched" THEN "music fetched"
                                ELSE "music fetch failed"),
                      <<"music", "mixing">>)
       IN /\ musicDir' = MusicDirAfter(musicDir, mood, outcome)
          /\ pjob' = [job EXCEPT
                        !.pc = "transforms",
                        !.musicPath = IF ExistsSync(path) THEN path ELSE "null",
                        !.targets = [i \in 1..job.nclips |-> TargetDurationPerClip(job)],
                        !.procs = [i \in 1..job.nclips |-> "running"]]
    /\ UNCHANGED <<ass, mix>>
    /\ UNCHANGED <<dbVars, mergeVars, speechVars, cascadeVars, jobVars, findVars, serverVars>>

\* the ffmpeg process of clip i ends: its promise resolves
PClipEnd(i) ==
    /\ pjob.pc = "transforms"
    /\ i \in 1..pjob.nclips
    /\ pjob.procs[i] = "running"
    /\ pjob' = [pjob EXCEPT !.procs[i] = "ended", !.ended = Append(@, i)]
    /\ UNCHANGED <<musicDir, ass, mix>>
    /\ UNCHANGED <<dbVars, mergeVars, speechVars, cascadeVars, jobVars, findVars, serverVars>>

\* the ffmpeg process of clip i fails: its promise rejects
PClipError(i) ==
    /\ pjob.pc = "transforms"
    /\ i \in 1..pjob.nclips
    /\ pjob.procs[i] = "running"
    /\ pjob' = [pjob EXCEPT !.procs[i] = "failed"]
    /\ UNCHANGED <<musicDir, ass, mix>>
    /\ UNCHANGED <<dbVars, mergeVars, speechVars, cascadeVars, jobVars, findVars, serverVars>>

\* processedClips as the outputs in the order in which the transforms ended
ProcessedInEndOrder(job) == job.ended

\* processedClips = await Promise.all(clipPromises): the outputs clip_<i>.mp4
\* by the position of their promise, that of the input path
ProcessedClips(job) == [i \in 1..job.nclips |-> i]

\* Promise.all settles: rejected as soon as one transform failed, fulfilled
\* when all have ended; then concat.txt is written
PJoin ==
    /\ pjob.pc = "transforms"
    /\ \/ /\ \E i \in 1..pjob.nclips : pjob.procs[i] = "failed"
          /\ pjob' = PThrow(pjob, "transform failed")
       \/ /\ \A i \in 1..pjob.nclips : pjob.procs[i] = "ended"
          /\ pjob' = [Say(Did(pjob, "join"), <<"mixing", "mixing">>) EXCEPT
                        !.pc = "concat",
                        !.concatList = ProcessedClips(pjob)]
    /\ UNCHANGED <<musicDir, ass, mix>>
    /\ UNCHANGED <<dbVars, mergeVars, speechVars, cascadeVars, jobVars, findVars, serverVars>>

\* concatenateVideos returns or throws
PConcat(ok) ==
    /\ pjob.pc = "concat"
    /\ pjob' = IF ok THEN [Say(Did(pjob, "concat"),
                                <<"mixing", "rendering", "rendering">>)
                            EXCEPT !.pc = "render"]
                ELSE PThrow(pjob, "concat failed")
    /\ UNCHANGED <<musicDir, ass, mix>>
    /\ UNCHANGED <<dbVars, mergeVars, speechVars, cascadeVars, jobVars, findVars, serverVars>>

\* the subtitles are written and applyCombinedEffects returns, leaving a
\* rendered video of some length, or throws
PRender(ok, videoDuration) ==
    /\ pjob.pc = "render"
    /\ pjob' = IF ok
                THEN [Say(Did(pjob, "render"),
                          IF pjob.voiceoverPath # "null"
                          THEN <<"rendering", "rendering">>
                          ELSE <<"rendering", "rendering", "finalizing">>) EXCEPT
                        !.pc = IF pjob.voiceoverPath # "null" THEN "probe" ELSE "mix",
                        !.renders = @ + 1,
                        !.videoDuration = videoDuration,
                        !.videoForMixing = "rendered"]
                ELSE PThrow([pjob EXCEPT !.renders = @ + 1], "render failed")
    /\ UNCHANGED <<musicDir, ass, mix>>
    /\ UNCHANGED <<dbVars, mergeVars, speechVars, cascadeVars, jobVars, findVars, serverVars>>

\* the test of the extension without the margin of 0.5 s
ShorterThanTarget(videoDuration, actualDuration) == videoDuration < actualDuration

\* videoDuration < actualDuration - 0.5
TooShort(videoDuration, actualDuration) == videoDuration < actualDuration - 5

\* with a voiceover: getVideoDuration returns the length of the rendered
\* video, or throws
PProbe(ok) ==
    /\ pjob.pc = "probe"
    /\ pjob' = IF ok
                THEN [Say(Did(pjob, "probe"), <<"finalizing">>) EXCEPT
                        !.pc = IF TooShort(pjob.videoDuration, pjob.actualDuration)
                               THEN "extend" ELSE "mix"]
                ELSE PThrow(pjob, "probe failed")
    /\ UNCHANGED <<musicDir, ass, mix>>
    /\ UNCHANGED <<dbVars, mergeVars, speechVars, cascadeVars, jobVars, findVars, serverVars>>

\* a failure of extendVideo that is swallowed: the job goes on to the mix
ExtendFailedGoOn(job) == [Did(job, "extend failed") EXCEPT !.pc = "mix"]

\* extendVideo throws: the job ends
ExtendFailed(job) == PThrow(job, "extend failed")

\* extendVideo returns or throws
PExtend(ok) ==
    /\ pjob.pc = "extend"
    /\ pjob' = IF ok
                THEN [Say(Did(pjob, "extend"), <<"finalizing">>) EXCEPT
                                                 !.pc = "mix",
                                                 !.videoForMixing = "extended"]
                ELSE ExtendFailed(pjob)
    /\ UNCHANGED <<musicDir, ass, mix>>
    /\ UNCHANGED <<dbVars, mergeVars, speechVars, cascadeVars, jobVars, findVars, serverVars>>

\* the file a path of the job names, as mixAudio finds it
TrackOf(path, fileExists) ==
    IF path = "null" THEN "null" ELSE IF fileExists THEN "present" ELSE "missing"

\* the length of the video handed to mixAudio: the rendered video, or its
\* loop cut at actualDuration by extendVideo
VideoForMixingDuration(job) ==
    IF job.videoForMixing = "extended" THEN job.actualDuration
    ELSE job.videoDuration

\* the length of the file mixAudio writes: "-shortest" ends the output with
\* the shortest mapped stream, and amix with duration=first lasts as long
\* as its first input, the voice
OutputDuration(cmd, videoDuration, voiceDuration, musicDuration) ==
    IF cmd.branch \in {"both", "voice"} THEN MathMin(videoDuration, voiceDuration)
    ELSE IF cmd.branch = "music" THEN MathMin(videoDuration, musicDuration)
    ELSE videoDuration

\* the end of generateVideo with "complete" reported before the removal
FinishCompleteFirst(job, removed) ==
    IF removed
    THEN [Say(job, <<"finalizing", "complete">>) EXCEPT
            !.pc = "returned", !.workspace = "removed"]
    ELSE [Say(job, <<"finalizing", "complete">>) EXCEPT !.pc = "threw"]

\* the end of generateVideo after mixAudio returned: fs.rmSync(workDir),
\* onProgress("complete"), return; when rmSync throws the catch block
\* runs it again and the job throws
Finish(job, removed) ==
    IF removed
    THEN [Say(job, <<"finalizing", "complete">>) EXCEPT
            !.pc = "returned", !.workspace = "removed"]
    ELSE [Say(job, <<"finalizing">>) EXCEPT !.pc = "threw"]

\* mixAudio(videoForMixing, voiceoverPath, musicPath, finalPath,
\* actualDuration, options.musicVolume) returns or throws; then the
\* workspace is removed and the job returns the artifact path.
\* musicDuration: the length of the music track; removed: whether rmSync
\* returns
PMix(ok, musicDuration, removed) ==
    /\ pjob.pc = "mix"
    /\ LET cmd == MixAudio(TrackOf(pjob.voiceoverPath, pjob.voiceFile),
                           TrackOf(pjob.musicPath,
                                   pjob.options.musicMood \in musicDir),
                           pjob.actualDuration, pjob.options.musicVolume)
           job == [pjob EXCEPT !.mixed = <<[video |-> pjob.videoForMixing,
                                           cmd |-> cmd]>>]
           out == OutputDuration(cmd, VideoForMixingDuration(pjob),
                                 pjob.voiceDuration, musicDuration)
       IN pjob' = IF ok
                  THEN Finish([Did(job, "mix") EXCEPT
                                 !.artifact = <<[duration |-> out]>>], removed)
                  ELSE PThrow(job, "mix failed")
    /\ UNCHANGED <<musicDir, ass, mix>>
    /\ UNCHANGED <<dbVars, mergeVars, speechVars, cascadeVars, jobVars, findVars, serverVars>>

\* the options of a job: nscenes is the number of queries it hands to the
\* cascade
PipeOptions ==
    [duration : PipeDurations, includeSpeech : BOOLEAN, script : BOOLEAN,
     musicMood : Moods, musicVolume : {2, 150}, nscenes : 1..MaxQueries]

PipeInit ==
    /\ StoresIdle
    /\ pjob = PIdle
    /\ musicDir \in {{}, {"epic"}}
    /\ ass = NoCall
    /\ mix = NoCall

PipeNext ==
    \/ \E opt \in PipeOptions : PStart(opt)
    \/ \E ok \in BOOLEAN : PSpeech(ok)
    \/ \E ok \in BOOLEAN, voiceDuration \in VoiceDurations : PAudioProbe(ok, voiceDuration)
    \/ \E n \in 0..MaxQueries : PFootage(n)
    \/ \E outcome \in {"fetched", "fetch failed", "threw"} : PMusic(outcome)
    \/ \E i \in 1..MaxQueries : PClipEnd(i)
    \/ \E i \in 1..MaxQueries : PClipError(i)
    \/ PJoin
    \/ \E ok \in BOOLEAN : PConcat(ok)
    \/ \E ok \in BOOLEAN, videoDuration \in VideoDurations : PRender(ok, videoDuration)
    \/ \E ok \in BOOLEAN : PProbe(ok)
    \/ \E ok \in BOOLEAN : PExtend(ok)
    \/ \E ok \in BOOLEAN, musicDuration \in MusicDurations, removed \in BOOLEAN :
          PMix(ok, musicDuration, removed)

SpecPipe == PipeInit /\ [][PipeNext]_vars

(* Claims about the stages of a job (SpecPipe) *)

\* the job's history holds the event
Logged(event) == pjob.pc # "idle" /\ \E k \in 1..Len(pjob.log) : pjob.log[k] = event

\* the event that follows the first event of the set in the job's history is
\* one of next, when there is one
FollowedBy(events, next) ==
    \A k \in 1..Len(pjob.log) :
        (pjob.log[k] \in events /\ k < Len(pjob.log)) => pjob.log[k + 1] \in next

\* C21: when speech synthesis or the measurement of the voiceover fails, the
\* job does not fail there: it goes on to the footage stage without a
\* voiceover, its total duration is the requested duration, and the mix it
\* runs has no voice track.
C21_VoiceFailureIsNotFatal ==
    (Logged("speech failed") \/ Logged("audioProbe failed")) =>
        /\ pjob.log[1] \in {"speech failed", "speech"}
        /\ Len(pjob.log) = (IF pjob.log[1] = "speech" THEN 2 ELSE 1)
              => pjob.pc = "footage"
        /\ FollowedBy({"speech failed", "audioProbe failed"},
                      {"footage", "footage failed"})
        /\ pjob.voiceoverPath = "null"
        /\ pjob.actualDuration = pjob.options.duration
        /\ pjob.mixed # <<>> =>
              /\ pjob.mixed[1].cmd.branch \in {"copy", "music"}
              /\ \A i \in 1..Len(pjob.mixed[1].cmd.inputs) :
                    pjob.mixed[1].cmd.inputs[i].track # "voice"

\* a job that returned after its voiceover was written and could not be
\* measured, mixed with music only
C21_Witness ==
    /\ Logged("audioProbe failed")
    /\ pjob.voiceFile
    /\ pjob.pc = "returned"
    /\ pjob.mixed[1].cmd.branch = "music"

\* C22: when the track of the job's mood is not cached and its fetch fails,
\* the job does not fail there: it goes on to the transforms without music,
\* nothing is written to the music directory, and the mix it runs has no
\* music track.
C22_MusicFailureIsNotFatal ==
    Logged("music fetch failed") =>
        /\ pjob.log[Len(pjob.log)] = "music fetch failed" => pjob.pc = "transforms"
        /\ FollowedBy({"music fetch failed"}, {"join", "transform failed"})
        /\ pjob.musicPath = "null"
        /\ pjob.options.musicMood \notin musicDir
        /\ musicDir = pjob.musicBefore
        /\ pjob.mixed # <<>> =>
              /\ pjob.mixed[1].cmd.branch \in {"copy", "voice"}
              /\ \A i \in 1..Len(pjob.mixed[1].cmd.inputs) :
                    pjob.mixed[1].cmd.inputs[i].track # "music"

\* a job with a voiceover that returned after the fetch of its track
\* failed, while the track of another mood is cached
C22_Witness ==
    /\ Logged("music fetch failed")
    /\ musicDir = {"epic"}
    /\ pjob.pc = "returned"
    /\ pjob.mixed[1].cmd.branch = "voice"

\* concatenation has started: concat.txt was written or concatenateVideos was
\* called
ConcatStarted ==
    \/ pjob.concatList # <<>>
    \/ pjob.pc \in {"concat", "render", "probe", "extend", "mix", "returned"}
    \/ Logged("join") \/ Logged("concat") \/ Logged("concat failed")

\* C25: concatenation starts only after every transform of the job has ended
\* successfully, in whatever order they ended; the concat list names the
\* processed clips in the order of the paths the cascade returned; when a
\* transform fails, concatenation never starts.
C25_ConcatAfterAllTransforms ==
    pjob.pc # "idle" =>
        /\ ConcatStarted =>
              /\ pjob.nclips >= 1
              /\ \A i \in 1..pjob.nclips : pjob.procs[i] = "ended"
              /\ Len(pjob.ended) = pjob.nclips
              /\ pjob.concatList = [i \in 1..pjob.nclips |-> i]
        /\ (\E i \in 1..Len(pjob.procs) : pjob.procs[i] = "failed") =>
              /\ ~ConcatStarted
              /\ pjob.pc \in {"transforms", "threw"}

\* a job whose last clip was transformed first and whose concat list is in
\* the order of the paths
C25_Witness ==
    /\ pjob.pc = "concat"
    /\ pjob.nclips >= 2
    /\ pjob.ended[1] = pjob.nclips
    /\ pjob.concatList[1] = 1

\* the mix was started
MixStarted == pjob.pc # "idle" /\ (pjob.mixed # <<>> \/ pjob.pc = "returned")

\* the event is in the job's history before position k
LoggedBefore(event, k) == \E r \in 1..(k - 1) : pjob.log[r] = event

\* C26: the audio mix never starts before the render has completed and, for
\* a job with a voiceover, the probe of the rendered video and the extension
\* it called for have completed; a failure of the render, of the probe or of
\* the extension prevents the mix and the return of the artifact path.
C26_MixAfterRenderAndReconciliation ==
    pjob.pc # "idle" =>
        /\ (pjob.pc = "mix" \/ MixStarted) =>
              /\ Logged("render")
              /\ pjob.voiceoverPath # "null" =>
                    /\ Logged("probe")
                    /\ pjob.videoDuration + 5 < pjob.actualDuration => Logged("extend")
        /\ \A k \in 1..Len(pjob.log) :
              pjob.log[k] \in {"mix", "mix failed"} =>
                  /\ LoggedBefore("render", k)
                  /\ ~LoggedBefore("mix", k) /\ ~LoggedBefore("mix failed", k)
                  /\ \A r \in 1..Len(pjob.log) :
                        pjob.log[r] \in {"render", "probe", "extend"} => r < k
        /\ (Logged("render failed") \/ Logged("probe failed") \/ Logged("extend failed")) =>
              /\ ~MixStarted
              /\ pjob.pc = "threw"

\* a job that returned after render, probe, extension and mix
C26_Witness ==
    /\ pjob.pc = "returned"
    /\ Logged("extend")
    /\ pjob.log[Len(pjob.log)] = "mix"

\* the sum of the clips' target durations is total: every target is the
\* same fraction num / den, and nclips x num / den = total
TargetsSumTo(total) ==
    /\ Len(pjob.targets) = pjob.nclips
    /\ \A i \in 1..pjob.nclips : pjob.targets[i] = pjob.targets[1]
    /\ pjob.nclips * pjob.targets[1].num = total * pjob.targets[1].den

\* C27 as stated: every acquired clip gets the same target duration, and the
\* target durations sum to the requested duration (options.duration).
C27_TargetsSumToRequested ==
    (pjob.pc # "idle" /\ pjob.targets # <<>>) =>
        /\ pjob.targets[1].den = pjob.nclips
        /\ TargetsSumTo(pjob.options.duration)

\* C27 amended: every acquired clip gets the same target duration, the
\* job's total duration divided by the number of acquired clips, so that
\* the targets sum to the job's total duration: the requested duration,
\* or the duration of the voiceover plus 1 s when the job has a voiceover
\* and that is longer.
C27_TargetsSumToJobDuration ==
    (pjob.pc # "idle" /\ pjob.targets # <<>>) =>
        /\ pjob.targets[1].den = pjob.nclips
        /\ TargetsSumTo(IF pjob.voiceoverPath # "null"
                           /\ pjob.voiceDuration + 10 > pjob.options.duration
                        THEN pjob.voiceDuration + 10
                        ELSE pjob.options.duration)

\* a job with a voiceover of 8 s for a requested duration of 6 s, with fewer
\* clips than scenes
C27_Witness ==
    /\ pjob.pc = "transforms"
    /\ pjob.options.duration = 60
    /\ pjob.voiceDuration = 80
    /\ pjob.nclips = 2 /\ pjob.options.nscenes = 3
    /\ pjob.targets = <<[num |-> 90, den |-> 2], [num |-> 90, den |-> 2]>>

\* loop extension was started
ExtensionStarted ==
    pjob.pc = "extend" \/ Logged("extend") \/ Logged("extend failed")

\* the number of render events in the job's history
Renders == Cardinality({k \in 1..Len(pjob.log) : pjob.log[k] \in {"render", "render failed"}})

\* C28: the loop extension runs if and only if the job has a voiceover and
\* the rendered video is more than 0.5 s shorter than the job's total
\* duration; the mix takes the extended video when it ran and the rendered
\* video otherwise; it never runs for a job without voiceover, and the
\* render runs at most once.
C28_ExtensionIffShortWithVoice ==
    pjob.pc # "idle" =>
        /\ ExtensionStarted =>
              /\ pjob.voiceoverPath # "null"
              /\ pjob.videoDuration + 5 < pjob.actualDuration
        /\ (pjob.pc = "mix" \/ MixStarted) =>
              (Logged("extend") <=> (/\ pjob.voiceoverPath # "null"
                                     /\ pjob.videoDuration + 5 < pjob.actualDuration))
        /\ pjob.mixed # <<>> =>
              pjob.mixed[1].video = (IF Logged("extend") THEN "extended" ELSE "rendered")
        /\ Renders <= 1 /\ pjob.renders <= 1

\* a job with a voiceover whose rendered video of 5.4 s was extended for a
\* total of 6 s and mixed from the extended video
C28_Witness ==
    /\ pjob.pc = "returned"
    /\ pjob.voiceoverPath # "null"
    /\ pjob.videoDuration = 54 /\ pjob.actualDuration = 60
    /\ Logged("extend")
    /\ pjob.mixed[1].video = "extended"

\* C31: the final artifact of a job that returned with a voiceover lasts at
\* least max(requested duration, voiceover duration + 1 s).
C31_ArtifactCoversNarration ==
    (pjob.pc = "returned" /\ pjob.voiceoverPath # "null") =>
        pjob.artifact[1].duration >=
            MathMax(pjob.options.duration, pjob.voiceDuration + 10)

\* the place of a stage in the order of the stages
StageRank(stage) ==
    CASE stage = "voiceover" -> 1
      [] stage = "searching" -> 2
      [] stage = "music" -> 3
      [] stage = "mixing" -> 4
      [] stage = "rendering" -> 5
      [] stage = "finalizing" -> 6
      [] stage = "complete" -> 7

\* the stage was passed to the progress callback
Reported(stage) ==
    pjob.pc # "idle" /\ \E k \in 1..Len(pjob.progress) : pjob.progress[k] = stage

\* C32: the stages a job that returned has reported are in the order
\* voiceover, searching, music, mixing, rendering, finalizing, complete and
\* never go back; "complete" is reported once, as the last event, and only
\* when the artifact is written and the workspace removed; a job that threw
\* has not reported "complete".
C32_ProgressInStageOrder ==
    pjob.pc # "idle" =>
        /\ pjob.pc = "returned" =>
              /\ \A j \in 1..Len(pjob.progress) : \A i \in 1..j :
                    StageRank(pjob.progress[i]) <= StageRank(pjob.progress[j])
              /\ pjob.progress[Len(pjob.progress)] = "complete"
              /\ Cardinality({k \in 1..Len(pjob.progress) :
                                 pjob.progress[k] = "complete"}) = 1
        /\ Reported("complete") =>
              /\ pjob.artifact # <<>>
              /\ pjob.workspace = "removed"
        /\ pjob.pc = "threw" => ~Reported("complete")

\* a job with a voiceover that returned after its video was extended: it
\* has reported each of the seven stages
C32_Witness ==
    /\ pjob.pc = "returned"
    /\ Logged("extend")
    /\ \A stage \in {"voiceover", "searching", "music", "mixing", "rendering",
                     "finalizing", "complete"} : Reported(stage)

----------------------------------------------------------------------------
(* SpecStore: the calls by which jobs write to the durable caches and to   *)
(* their workspaces, one step per call, and the removal of a workspace     *)

\* the most calls of a behaviour
MaxStoreCalls == 5

StoreTexts == {[head |-> "short", tail |-> ""], [head |-> "full", tail |-> "x"]}

\* an entry of a workspace: its name, the file it was made from, and whether
\* it is a hard link to that file or a copy of it
Entry(name, i, link) == [name |-> name, i |-> i, link |-> link]

\* generateSpeech as one call: the copy of the cached audio, or the
\* synthesis, which throws or returns the audio that is written to
\* outputPath and then to the cache
GenerateSpeech(cache, count, text, language, ok) ==
    LET k == GetVoiceoverCacheKey(CleanText(text), language)
        buffer == [take |-> count[k] + 1, text |-> k.text, language |-> k.language]
    IN IF cache[k] # NoAudio
       THEN [ok |-> TRUE, out |-> cache[k], voiceCache |-> cache, synthesized |-> FALSE]
       ELSE IF ok
            THEN [ok |-> TRUE, out |-> buffer,
                  voiceCache |-> [cache EXCEPT ![k] = buffer], synthesized |-> TRUE]
            ELSE [ok |-> FALSE, out |-> NoAudio, voiceCache |-> cache,
                  synthesized |-> FALSE]

\* if (!fs.existsSync(outputPath)) linkSync(cached, outputPath), or
\* copyFileSync when linkSync throws
LinkOrCopy(dir, name, i, link) ==
    IF \E e \in dir.files : e.name = name /\ e.i = i THEN dir
    ELSE [dir EXCEPT !.files = @ \cup {Entry(name, i, link)}]

\* a removal that also deletes the cached files the workspace links to
RmSyncWithTargets(d, ws, files) ==
    [dirs |-> [ws EXCEPT ![d] = NoDir],
     cacheFiles |-> files \ {e.i : e \in {x \in ws[d].files : x.link}}]

\* fs.rmSync(workDir, {recursive: true, force: true}): the entries of the
\* directory are unlinked and the directory is removed; the file of a hard
\* link keeps its name in the cache directory
RmSync(d, ws, files) == [dirs |-> [ws EXCEPT ![d] = NoDir], cacheFiles |-> files]

\* the call that was just made
Called(op, d, ok, detail) ==
    [op |-> op, d |-> d, ok |-> ok, detail |-> detail, calls |-> kjob.calls + 1]

\* generateVideo: fs.mkdirSync(workDir, {recursive: true})
KStart(d) ==
    /\ kjob.calls < MaxStoreCalls
    /\ ~dirs[d].exists
    /\ dirs' = [dirs EXCEPT ![d] = [exists |-> TRUE, files |-> {}]]
    /\ UNCHANGED <<req, generations, users, sessions, acted>>
    /\ kjob' = Called("mkdir", d, TRUE, "none")
    /\ UNCHANGED <<now, gjob, procs, rmBusy, musicDir, pjob, ass, mix>>
    /\ UNCHANGED <<dbVars, mergeVars, speechVars, cascadeVars, findVars>>

\* generateSpeech(options.script, workDir/voiceover.mp3, options.language)
KSpeech(d, text, language, ok) ==
    /\ kjob.calls < MaxStoreCalls
    /\ dirs[d].exists
    /\ LET g == GenerateSpeech(voiceCache, synthCount, text, language, ok)
       IN /\ voiceCache' = g.voiceCache
          /\ synthCount' = IF g.synthesized
                           THEN [synthCount EXCEPT
                                   ![GetVoiceoverCacheKey(CleanText(text), language)] = @ + 1]
                           ELSE synthCount
          /\ dirs' = IF g.ok
                     THEN [dirs EXCEPT ![d] = LinkOrCopy(@, "voiceover.mp3", 0, FALSE)]
                     ELSE dirs
          /\ kjob' = Called("speech", d, g.ok,
                            IF g.synthesized THEN "synthesized"
                            ELSE IF g.ok THEN "hit" ELSE "synthesis failed")
    /\ UNCHANGED <<req, generations, users, sessions, acted>>
    /\ UNCHANGED <<now, gjob, procs, rmBusy, musicDir, pjob, ass, mix>>
    /\ UNCHANGED <<voiceOut, sjob, slog, scalls>>
    /\ UNCHANGED <<dbVars, mergeVars, cascadeVars, findVars>>

\* step 1: a library item whose file exists is copied to the workspace
KLibrary(d, item) ==
    /\ kjob.calls < MaxStoreCalls
    /\ dirs[d].exists
    /\ item \in Range(library) /\ item.fileExists
    /\ dirs' = [dirs EXCEPT ![d] = LinkOrCopy(@, "library.mp4", item.id, FALSE)]
    /\ UNCHANGED <<req, generations, users, sessions, acted>>
    /\ kjob' = Called("library", d, TRUE, "none")
    /\ UNCHANGED <<now, gjob, procs, rmBusy, musicDir, pjob, ass, mix>>
    /\ UNCHANGED <<dbVars, mergeVars, speechVars, cascadeVars, findVars>>

\* steps 2 and 4: a cached clip whose file exists is linked or copied to
\* the workspace
KCached(d, c, link) ==
    /\ kjob.calls < MaxStoreCalls
    /\ dirs[d].exists
    /\ c \in Range(clips) /\ c.filePath \in cacheFiles
    /\ dirs' = [dirs EXCEPT ![d] = LinkOrCopy(@, "pexels.mp4", c.pexelsId, link)]
    /\ UNCHANGED <<req, generations, users, sessions, acted>>
    /\ kjob' = Called("cached", d, TRUE, "none")
    /\ UNCHANGED <<now, gjob, procs, rmBusy, musicDir, pjob, ass, mix>>
    /\ UNCHANGED <<dbVars, mergeVars, speechVars, cascadeVars, findVars>>

\* steps 3 and 5: searchVideos throws
KSearchFails(d) ==
    /\ kjob.calls < MaxStoreCalls
    /\ dirs[d].exists
    /\ UNCHANGED <<req, generations, users, sessions, acted>>
    /\ kjob' = Called("search", d, FALSE, "search failed")
    /\ UNCHANGED <<dbVars, mergeVars, speechVars, cascadeVars, jobVars, findVars,
                   composeVars>>

\* steps 3 and 5: downloadVideo(video, workDir, "hd", searchTerm, orientation)
KDownload(d, video, searchTerm, orientation, oc, link) ==
    /\ kjob.calls < MaxStoreCalls
    /\ dirs[d].exists
    /\ LET r == DownloadVideo(clips, nextId, cacheFiles, video, searchTerm,
                              orientation, oc)
       IN /\ clips' = r.clips
          /\ nextId' = r.nextId
          /\ cacheFiles' = r.cacheFiles
          /\ dirs' = IF r.ok
                     THEN [dirs EXCEPT ![d] = LinkOrCopy(@, "pexels.mp4", video, link)]
                     ELSE dirs
          /\ kjob' = Called("download", d, r.ok, oc)
    /\ UNCHANGED <<req, generations, users, sessions, acted>>
    /\ UNCHANGED <<now, gjob, procs, rmBusy, musicDir, pjob, ass, mix>>
    /\ UNCHANGED <<mergeVars, speechVars, cascadeVars, findVars>>

\* getBackgroundMusic(options.musicMood, workDir)
KMusic(d, mood, outcome) ==
    /\ kjob.calls < MaxStoreCalls
    /\ dirs[d].exists
    /\ musicDir' = MusicDirAfter(musicDir, mood, outcome)
    /\ UNCHANGED <<req, generations, users, sessions, acted>>
    /\ kjob' = Called("music", d, outcome # "threw", outcome)
    /\ UNCHANGED <<pjob, ass, mix>>
    /\ UNCHANGED <<dbVars, mergeVars, speechVars, cascadeVars, jobVars, findVars>>

\* the end of generateVideo, by return or in the catch block:
\* fs.rmSync(workDir, {recursive: true, force: true})
KRemove(d) ==
    /\ dirs[d].exists
    /\ LET r == RmSync(d, dirs, cacheFiles)
       IN /\ dirs' = r.dirs
          /\ cacheFiles' = r.cacheFiles
    /\ UNCHANGED <<req, generations, users, sessions, acted>>
    /\ kjob' = [op |-> "rm", d |-> d, ok |-> TRUE, detail |-> dirs[d].files,
                calls |-> kjob.calls]
    /\ UNCHANGED <<clips, nextId>>
    /\ UNCHANGED <<now, gjob, procs, rmBusy, musicDir, pjob, ass, mix>>
    /\ UNCHANGED <<mergeVars, speechVars, cascadeVars, findVars>>

\* a deployment that has served jobs: video 1 is cached, the library holds
\* two items, no voiceover and no music track is cached
StoreInit ==
    /\ ServerIdle
    /\ clips = InitialClips
    /\ nextId = 2
    /\ cacheFiles = {1}
    /\ mjob = [j \in MergeJobs |-> MIdle]
    /\ mlog = {}
    /\ mcalls = 0
    /\ SpeechIdle
    /\ JobIdle
    /\ FindIdle
    /\ ComposeIdle
    /\ apiKey = TRUE
    /\ library = <<MediaSea, MediaSky>>
    /\ run = RunIdle
    /\ sceneLog = <<>>
    /\ fetches = [v \in ProviderIds |-> 0]
    /\ requested = [v \in ProviderIds |-> {}]
    /\ lastJob = NoJob
    /\ runs = 0
    /\ tally = NoTally

StoreNext ==
    \/ \E d \in WorkDirs : KStart(d)
    \/ \E d \in WorkDirs, text \in StoreTexts, ok \in BOOLEAN :
          KSpeech(d, text, "en", ok)
    \/ \E d \in WorkDirs, item \in Range(library) : KLibrary(d, item)
    \/ \E d \in WorkDirs, c \in Range(clips), link \in BOOLEAN : KCached(d, c, link)
    \/ \E d \in WorkDirs : KSearchFails(d)
    \/ \E d \in WorkDirs, video \in ProviderIds, term \in {sSkyCap, sSea},
          oc \in DownloadOutcomes, link \in BOOLEAN :
          KDownload(d, video, term, "landscape", oc, link)
    \/ \E d \in WorkDirs, outcome \in {"fetched", "fetch failed", "threw"} :
          KMusic(d, "epic", outcome)
    \/ \E d \in WorkDirs : KRemove(d)

SpecStore == StoreInit /\ [][StoreNext]_vars

\* the call just made failed before it could write: a failed search, a
\* download that failed at the video's files, at the lookup or at the fetch,
\* or a failed synthesis
FailedBeforeWrite(k) ==
    \/ k.op = "search"
    \/ k.op = "download" /\ ~k.ok /\ k.detail \in {"no_file", "lookup_fails", "fetch_fails"}
    \/ k.op = "speech" /\ ~k.ok

C34_RemovalLeavesCaches ==
    [][(kjob'.op = "rm" /\ dirs' # dirs) =>
          /\ dirs'[kjob'.d] = NoDir
          /\ \A d \in WorkDirs : d # kjob'.d => dirs'[d] = dirs[d]
          /\ cacheFiles' = cacheFiles
          /\ clips' = clips /\ nextId' = nextId
          /\ voiceCache' = voiceCache
          /\ library' = library
          /\ musicDir' = musicDir]_vars

\* a workspace that held a hard link to the cached file of video 1 and a
\* copy of a voiceover was removed while another workspace holds entries
C34_Witness ==
    /\ kjob.op = "rm"
    /\ \E e \in kjob.detail : e.name = "pexels.mp4" /\ e.i = 1 /\ e.link
    /\ \E e \in kjob.detail : e.name = "voiceover.mp3"
    /\ 1 \in cacheFiles
    /\ \E d \in WorkDirs : dirs[d].exists /\ dirs[d].files # {}

----------------------------------------------------------------------------
(* SpecRoute: requests to POST /api/videos/generate, one step per awaited  *)
(* call of the handler                                                     *)

\* sendEvent({step, ...}): res.write of one event
Sent(q, steps) == [q EXCEPT !.events = @ \o steps]

\* res.end() after the stream was opened
Ended(q) == [q EXCEPT !.pc = "ended", !.response = "stream"]

\* the handler up to its first await: the body is parsed, the key is
\* checked, createVideoGeneration is called
RPost(r, valid) ==
    /\ req[r].pc = "idle"
    /\ req' = [req EXCEPT ![r] =
                 IF ~valid THEN [@ EXCEPT !.pc = "ended", !.response = "json 500"]
                 ELSE IF ~apiKey THEN [@ EXCEPT !.pc = "ended", !.response = "json 400"]
                 ELSE [@ EXCEPT !.pc = "create"]]
    /\ UNCHANGED <<kjob, generations, users, sessions, acted>>
    /\ UNCHANGED <<dbVars, mergeVars, speechVars, cascadeVars, jobVars, findVars,
                   composeVars>>

\* createVideoGeneration returns the new row, status "processing"; the
\* stream is opened, "analyzing" is sent and the script is asked for.  When
\* it throws the outer catch answers 500.
RCreate(r, ok) ==
    /\ req[r].pc = "create"
    /\ IF ok
       THEN /\ generations' = Append(generations, "processing")
            /\ req' = [req EXCEPT ![r] =
                         Sent([@ EXCEPT !.pc = "script", !.id = Len(generations) + 1,
                                        !.response = "stream"], <<"analyzing">>)]
       ELSE /\ req' = [req EXCEPT ![r] = [@ EXCEPT !.pc = "ended",
                                                   !.response = "json 500"]]
            /\ UNCHANGED generations
    /\ UNCHANGED <<kjob, users, sessions, acted>>
    /\ UNCHANGED <<dbVars, mergeVars, speechVars, cascadeVars, jobVars, findVars,
                   composeVars>>

\* the script: openai.chat.completions.create and JSON.parse return, or one
\* of them throws
RScript(r, ok) ==
    /\ req[r].pc = "script"
    /\ req' = [req EXCEPT ![r] =
                 IF ok THEN Sent([@ EXCEPT !.pc = "video"], <<"script_ready">>)
                 ELSE [@ EXCEPT !.pc = "failing"]]
    /\ UNCHANGED <<kjob, generations, users, sessions, acted>>
    /\ UNCHANGED <<dbVars, mergeVars, speechVars, cascadeVars, jobVars, findVars,
                   composeVars>>

\* generateVideo returns, its last progress event being "complete", or
\* throws after some progress events
RVideo(r, ok) ==
    /\ req[r].pc = "video"
    /\ req' = [req EXCEPT ![r] =
                 IF ok THEN Sent([@ EXCEPT !.pc = "completing"],
                                 <<"searching", "finalizing", "complete">>)
                 ELSE Sent([@ EXCEPT !.pc = "failing"], <<"searching">>)]
    /\ UNCHANGED <<kjob, generations, users, sessions, acted>>
    /\ UNCHANGED <<dbVars, mergeVars, speechVars, cascadeVars, jobVars, findVars,
                   composeVars>>

\* updateVideoGeneration(id, {status: "completed", ...}) returns: "complete"
\* is sent and the stream ends; when it throws the inner catch runs
RCompleted(r, ok) ==
    /\ req[r].pc = "completing"
    /\ IF ok
       THEN /\ generations' = [generations EXCEPT ![req[r].id] = "completed"]
            /\ req' = [req EXCEPT ![r] = Ended(Sent(@, <<"complete">>))]
       ELSE /\ req' = [req EXCEPT ![r] = [@ EXCEPT !.pc = "failing"]]
            /\ UNCHANGED generations
    /\ UNCHANGED <<kjob, users, sessions, acted>>
    /\ UNCHANGED <<dbVars, mergeVars, speechVars, cascadeVars, jobVars, findVars,
                   composeVars>>

\* the inner catch: updateVideoGeneration(id, {status: "failed"}) returns:
\* "error" is sent and the stream ends; when it throws the outer catch ends
\* the stream
RFailed(r, ok) ==
    /\ req[r].pc = "failing"
    /\ IF ok
       THEN /\ generations' = [generations EXCEPT ![req[r].id] = "failed"]
            /\ req' = [req EXCEPT ![r] = Ended(Sent(@, <<"error">>))]
       ELSE /\ req' = [req EXCEPT ![r] = Ended(@)]
            /\ UNCHANGED generations
    /\ UNCHANGED <<kjob, users, sessions, acted>>
    /\ UNCHANGED <<dbVars, mergeVars, speechVars, cascadeVars, jobVars, findVars,
                   composeVars>>

RouteInit ==
    /\ StoresIdle
    /\ ComposeIdle

RouteNext ==
    \/ \E r \in Requests, valid \in BOOLEAN : RPost(r, valid)
    \/ \E r \in Requests, ok \in BOOLEAN : RCreate(r, ok)
    \/ \E r \in Requests, ok \in BOOLEAN : RScript(r, ok)
    \/ \E r \in Requests, ok \in BOOLEAN : RVideo(r, ok)
    \/ \E r \in Requests, ok \in BOOLEAN : RCompleted(r, ok)
    \/ \E r \in Requests, ok \in BOOLEAN : RFailed(r, ok)

SpecRoute == RouteInit /\ [][RouteNext]_vars

\* C39: when the response stream of a request that created a row has ended,
\* the row's status is "completed" or "failed"; it is "completed" exactly
\* when the last event sent is "complete" and "failed" exactly when the last
\* event sent is "error"; no "error" event follows a "complete" event.
C39_StatusSettledAtStreamEnd ==
    \A r \in Requests :
        LET q == req[r]
            last == q.events[Len(q.events)]
        IN /\ (q.pc = "ended" /\ q.id # 0) =>
                /\ generations[q.id] \in {"completed", "failed"}
                /\ generations[q.id] = "completed" <=> last = "complete"
                /\ generations[q.id] = "failed" <=> last = "error"
           /\ \A i, j \in 1..Len(q.events) :
                (i < j /\ q.events[i] = "complete") => q.events[j] # "error"

----------------------------------------------------------------------------
(* SpecAuth: requests to /login and to the user administration routes, one *)
(* step per request                                                        *)

\* the most rows the users table is given
MaxUsers == 2

Usernames == {SUPERADMIN_USERNAME, "bob"}
Roles == {"superadmin", "admin", "user"}

\* storage.getUserByUsername: the id of the row, 0 when there is none
GetUserByUsername(us, username) ==
    IF \E i \in 1..Len(us) : us[i].username = username
    THEN CHOOSE i \in 1..Len(us) : us[i].username = username
    ELSE 0

\* storage.getUser(id)
GetUser(us, id) == IF id \in 1..Len(us) THEN us[id] ELSE NoUser

\* requireRole(...roles): the status it answers, 200 when it calls next()
RequireRole(session, roles) ==
    IF session.userId = 0 THEN 401
    ELSE IF session.userRole \notin roles THEN 403
    ELSE 200

\* the request that was just answered
Answered(route, c, status) ==
    acted' = [route |-> IF status = 200 THEN route ELSE "refused",
              by |-> sessions[c].userId]

\* POST /login
ALogin(c, username, valid) ==
    /\ LET id == GetUserByUsername(users, username)
       IN IF id = 0 \/ ~valid
          THEN /\ UNCHANGED sessions
               /\ Answered("login", c, 401)
          ELSE /\ sessions' = [sessions EXCEPT ![c] =
                                 [userId |-> id, userRole |-> users[id].role]]
               /\ Answered("login", c, 200)
    /\ UNCHANGED <<users, kjob, req, generations>>
    /\ UNCHANGED <<dbVars, mergeVars, speechVars, cascadeVars, jobVars, findVars,
                   composeVars>>

\* POST /users; role "none": the body names no role
ACreateUser(c, username, role) ==
    /\ LET gate == RequireRole(sessions[c], {"superadmin", "admin"})
           status == IF gate # 200 THEN gate
                     ELSE IF role = "superadmin" /\ sessions[c].userRole # "superadmin"
                          THEN 403
                     ELSE IF GetUserByUsername(users, username) # 0 THEN 400
                     ELSE 200
       IN /\ status = 200 => Len(users) < MaxUsers
          /\ users' = IF status = 200
                      THEN Append(users, [username |-> username,
                                          role |-> IF role = "none" THEN "user" ELSE role])
                      ELSE users
          /\ Answered("create", c, status)
    /\ UNCHANGED <<sessions, kjob, req, generations>>
    /\ UNCHANGED <<dbVars, mergeVars, speechVars, cascadeVars, jobVars, findVars,
                   composeVars>>

\* PATCH /users/:id; "none": the body does not name the field; the update
\* throws on a username that another row has, and on no field at all.  The
\* password, which no check reads, is left out of the rows.
AUpdateUser(c, id, username, role) ==
    /\ LET gate == RequireRole(sessions[c], {"superadmin", "admin"})
           user == GetUser(users, id)
           other == GetUserByUsername(users, username)
           status == IF gate # 200 THEN gate
                     ELSE IF user = NoUser THEN 404
                     ELSE IF user.role = "superadmin"
                             /\ sessions[c].userRole # "superadmin" THEN 403
                     ELSE IF role = "superadmin"
                             /\ sessions[c].userRole # "superadmin" THEN 403
                     ELSE IF other # 0 /\ other # id THEN 500
                     ELSE IF username = "none" /\ role = "none" THEN 500
                     ELSE 200
       IN /\ users' = IF status = 200
                      THEN [users EXCEPT ![id] =
                              [username |-> IF username # "none" THEN username
                                            ELSE @.username,
                               role |-> IF role # "none" THEN role ELSE @.role]]
                      ELSE users
          /\ Answered("update", c, status)
    /\ UNCHANGED <<sessions, kjob, req, generations>>
    /\ UNCHANGED <<dbVars, mergeVars, speechVars, cascadeVars, jobVars, findVars,
                   composeVars>>

\* DELETE /users/:id
ADeleteUser(c, id) ==
    /\ LET gate == RequireRole(sessions[c], {"superadmin"})
           user == GetUser(users, id)
           status == IF gate # 200 THEN gate
                     ELSE IF user = NoUser THEN 404
                     ELSE IF user.username = SUPERADMIN_USERNAME THEN 403
                     ELSE 200
       IN /\ users' = IF status = 200 THEN [users EXCEPT ![id] = NoUser] ELSE users
          /\ Answered("delete", c, status)
    /\ UNCHANGED <<sessions, kjob, req, generations>>
    /\ UNCHANGED <<dbVars, mergeVars, speechVars, cascadeVars, jobVars, findVars,
                   composeVars>>

AuthInit ==
    /\ StoresIdle
    /\ ComposeIdle

AuthNext ==
    \/ \E c \in Clients, username \in Usernames, valid \in BOOLEAN :
          ALogin(c, username, valid)
    \/ \E c \in Clients, username \in Usernames, role \in Roles \cup {"none"} :
          ACreateUser(c, username, role)
    \/ \E c \in Clients, id \in 1..MaxUsers, username \in Usernames \cup {"none"},
          role \in Roles \cup {"none"} :
          AUpdateUser(c, id, username, role)
    \/ \E c \in Clients, id \in 1..MaxUsers : ADeleteUser(c, id)

SpecAuth == AuthInit /\ [][AuthNext]_vars

\* the step creates a superadmin user, gives a user the superadmin role,
\* changes the row of a superadmin, or deletes a user
AdministersSuperadminOrDeletes ==
    \/ \E i \in 1..Len(users') : i > Len(users) /\ users'[i].role = "superadmin"
    \/ \E i \in 1..Len(users) :
          \/ users'[i].role = "superadmin" /\ users[i].role # "superadmin"
          \/ users[i].role = "superadmin" /\ users'[i] # users[i]
          \/ users[i] # NoUser /\ users'[i] = NoUser

\* C40: only a user whose stored role is "superadmin" at the time of the
\* request creates a superadmin user, gives a user the superadmin role,
\* modifies a superadmin user or deletes a user, whatever logins and
\* requests came before; the user named SUPERADMIN_USERNAME is never
\* deleted.
C40_OnlySuperadminAdministers ==
    [][/\ AdministersSuperadminOrDeletes =>
             GetUser(users, acted'.by).role = "superadmin"
       /\ \A i \in 1..Len(users) :
             users[i].username = SUPERADMIN_USERNAME => users'[i] # NoUser]_vars

(* Claims about the steps of the cascade (SpecCascade) *)

\* C11: for every scene the steps are attempted in the fixed order library,
\* exact-orientation cache, remote search, cross-orientation cache, emergency
\* fetch; the first step that yields a file ends the scene; no remote search
\* or download is issued unless the library lookup and the cache lookup of
\* the scene were made and gave no usable file; no step runs after a hit.
C11_TiersInOrderFirstHitEnds ==
    /\ tally.ordered
    /\ ~tally.late
    /\ tally.hit # 0 => tally.last = tally.hit
    /\ (tally.search3 > 0 \/ tally.search5 > 0 \/ tally.dl > 0)
          => (tally.lib = 1 /\ tally.cache = 1 /\ tally.hit \notin {1, 2})
    /\ \A i \in 1..Len(sceneLog) :
          sceneLog[i].scene = tally.scene =>
             IF sceneLog[i].end = "notice"
             THEN tally.hit = 0 /\ tally.last = 5
             ELSE tally.hit = sceneLog[i].tier

\* a scene that went through the remote searches of step 3 and through
\* step 4 and was resolved by the emergency fetch
C11_Witness ==
    /\ run.pc = "returned"
    /\ tally.hit = 5
    /\ tally.search3 > 0
    /\ tally.ordered

\* C12: when steps 1 to 3 found nothing and the cache holds a clip, of either
\* orientation, whose file exists and whose provider ID the run has not used,
\* step 4 resolves the scene with such a clip.
C12_Tier4ResolvesFromAnyUsableClip ==
    (tally.lookup4 > 0 /\ tally.usable4) =>
        /\ tally.hit = 4
        /\ sceneLog[Len(sceneLog)].id \in cacheFiles

\* C13: when step 2 resolves a scene from the exact-orientation cache, the
\* scene's query is among the matched clip's stored terms afterwards.
C13_Tier2HitMergesQuery ==
    run.pc # "idle" =>
        \A i \in 1..Len(sceneLog) :
            sceneLog[i].tier = 2 =>
                \/ run.queries[sceneLog[i].scene] \in TermsOf(clips, sceneLog[i].id)
                \/ ToLower(run.queries[sceneLog[i].scene]) \in TermsOf(clips, sceneLog[i].id)

\* C14: when the provider's API key is absent, the cascade returns a
\* configuration error to its caller, before any request to the provider.
C14_NoKeyGivesConfigurationError ==
    (~apiKey /\ run.pc = "returned" /\ Len(run.queries) > 0) =>
        /\ ~tally.net
        /\ \E i \in 1..Len(run.errors) :
              run.errors[i].notice = "PEXELS_API_KEY is not set"

\* C15: no failure of a storage lookup, a remote search or a clip download
\* escapes searchAndDownloadVideos: whatever fails, the cascade is never left
\* by a throw.
C15_NoFailureEscapes == run.pc # "threw"

\* a run that returned a notice after a download had failed at its storage
\* write (the file is on disk without a row) and the last remote search of
\* step 5 had failed
C15_Witness ==
    /\ run.pc = "returned"
    /\ tally.failed = "search"
    /\ tally.search5 = Len(EmergencyQueries)
    /\ Len(run.errors) > 0
    /\ \E v \in cacheFiles : GetCachedClipByPexelsId(clips, v) = NoClip

\* the work of the scene in progress is within the bounds of each step
BoundedWork ==
    /\ tally.search3 <= 15
    /\ tally.lookup4 <= 2
    /\ tally.search5 <= 5
    /\ tally.dl <= tally.results
    /\ tally.lib <= 1 /\ tally.cache <= 1

\* the cascade is between its call and its return
Working == run.pc \notin {"idle", "returned", "threw"}

\* the steps one query of a download step can take: the search, a download
\* attempt per result, and the end of the loop over the results
StepsPerQuery ==
    2 + (CHOOSE n \in 0..10 : /\ \A v \in ResultLists : Len(v) <= n
                              /\ \E v \in ResultLists : Len(v) = n)

\* the steps the scene in progress can still take under the claimed bounds:
\* 15 queries in step 3 and 5 in step 5
StepsLeftInScene(r) ==
    LET rank5(k) == (5 + 1 - k) * StepsPerQuery + 1
        rank4 == rank5(1) + 1
        rank3(k) == rank4 + 1 + (15 + 1 - k) * StepsPerQuery
        rank2 == rank3(1) + 1
        rankS(k) == IF r.tier = 3 THEN rank3(k) ELSE rank5(k)
    IN CASE r.pc = "tier1" -> rank2 + 1
         [] r.pc = "tier2" -> rank2
         [] r.pc = "search" -> rankS(r.k)
         [] r.pc = "download" -> rankS(r.k + 1) + 1 + Len(r.videos)
         [] r.pc = "tier4" -> rank4
         [] OTHER -> 0

\* the steps the run can still take: a full scene for each scene not begun
StepsLeft(r) ==
    IF r.pc \in {"idle", "returned", "threw"} THEN 0
    ELSE (Len(r.queries) - r.i) * (StepsLeftInScene([r EXCEPT !.pc = "tier1"]) + 1)
         + StepsLeftInScene(r)

\* C16: the cascade terminates for every outcome of its external calls, and
\* each step does bounded work per scene: at most 15 remote searches in
\* step 3, at most 2 cache lookups in step 4, at most 5 remote searches in
\* step 5, each search followed by at most one download attempt per result.
\* Termination: a working cascade is at a position that has a step for
\* every outcome of its call, and every step leaves strictly fewer steps to
\* take.
C16_BoundedWorkAndTermination ==
    /\ [](BoundedWork /\ (Working => run.pc \in {"tier1", "tier2", "search",
                                                  "download", "tier4"}))
    /\ [][Working => (StepsLeft(run') < StepsLeft(run) /\ StepsLeft(run') >= 0)]_vars

\* a scene that ended with a notice after all the searches of steps 3 and 5
\* and a download attempt on each result of the last search
C16_Witness ==
    /\ run.pc = "returned"
    /\ Len(run.errors) > 0
    /\ tally.search3 = Len(UniqueQueries(run.queries[tally.scene]))
    /\ tally.search3 >= 12
    /\ tally.search5 = 5
    /\ tally.results = 2 /\ tally.dl = 2

\* C18: for a scene query without a token longer than 2 characters the
\* media-library search returns no item, so step 1 does not resolve the scene
\* from the library.
C18_NoTokensNoLibraryHit ==
    run.pc # "idle" =>
        \A i \in 1..Len(sceneLog) :
            sceneLog[i].tier = 1 => SearchWords(run.queries[sceneLog[i].scene]) # <<>>

\* C38: generateVideo hands the cascade between 1 and 5 queries: the first
\* five scene descriptions in the order of the script, or the prompt alone
\* when the scene list is absent or empty.
C38_OneToFiveQueries ==
    [][\A scenes \in SceneInputs, o \in Orientations :
          CStart(scenes, o) =>
              /\ Len(run'.queries) \in 1..5
              /\ run'.queries = IF scenes = NoScenes \/ scenes = <<>>
                                THEN <<PromptInput>>
                                ELSE Slice(scenes, 5)]_vars

\* C37: every clip record carries the orientation that was the filter of the
\* remote search that returned the clip, in step 3 and in step 5: a record
\* is created with the orientation the search of its tier asked for.
C37_RecordCarriesSearchOrientation ==
    [][\A c \in Range(clips') :
          (\A b \in Range(clips) : b.pexelsId # c.pexelsId) =>
              /\ run.pc = "download"
              /\ c.orientation = TierSearchOrientation(run)]_vars

\* the place of the first occurrence of x in seq
FirstIndex(seq, x) == CHOOSE i \in 1..Len(seq) :
                         seq[i] = x /\ \A j \in 1..(i - 1) : seq[j] # x

\* u is the list: the query, its simplification, up to 3 of its words longer
\* than 2 characters, the 10 fallback terms, each query once, at the place of
\* its first occurrence
InTier3Order(u, query) ==
    LET words == Slice(QueryWords(query), 3)
        all == <<query, SimplifyQuery(query)>> \o words \o FALLBACK_QUERIES
        place == [i \in 1..Len(u) |-> FirstIndex(all, u[i])]
    IN /\ u[1] = query
       /\ Len(words) <= 3 /\ \A w \in Range(words) : Len(w) > 2
       /\ Len(FALLBACK_QUERIES) = 10
       /\ Range(u) \subseteq Range(all)
       /\ \A x \in Range(all) : x \in Range(u)
       /\ \A i \in 1..(Len(u) - 1) : place[i] < place[i + 1]

C35_OneRecordPerProviderId ==
    \A i, j \in 1..Len(clips) : clips[i].pexelsId = clips[j].pexelsId => i = j

\* two calls for video 2 both read no record; one insert made the record
\* and the other was refused
C35_Witness ==
    /\ \E e \in mlog : e.how = "insert_refused" /\ e.pid = 2
    /\ \E e \in mlog : e.how = "saved" /\ e.pid = 2
    /\ \E i \in 1..Len(clips) : clips[i].pexelsId = 2

====
